---- MODULE Spec2Model ----
(***************************************************************************)
(* A model of the cricket-data pipeline: the resumable crawler and the     *)
(* fixture discovery of src/scrape/aucb_bbb_scrape.py, the ball-by-ball    *)
(* transform engine of src/transform/cricinfo.py, the transform workers    *)
(* and their orchestrator (src/transform/aucb.py, cricinfo.py), and the    *)
(* crawl operations of src/main.py.                                        *)
(***************************************************************************)
EXTENDS Integers, Sequences, FiniteSets, TLC

VARIABLES
    \* ---- crawler (CricketScraper) ----
    store,        \* blob store: the set of paths that exist
    run,          \* number of the crawl run in progress (or of the next one)
    pc,           \* position of scrape(): "idle" | "fetching" | "saving"
    fixture_ids,  \* self.fixture_ids, the frontier of the run
    urls,         \* the list generate_urls returned
    batch_i,      \* offset i of the batch being processed
    task,         \* per url of the batch: waiting | inflight | dropped | kept | kept_valid | rejected | saved | unsaved
    fetch_log,    \* history: the requests issued, [run, fixture_id, type]
    saved_in,     \* history: per path, the run that wrote it (0: never)
    current_proxy_index,  \* self.current_proxy_index, the cursor of the rotation
    \* ---- transform engine (CricinfoTransformer) ----
    doc,          \* commentary_data as read from the input file
    xf,           \* per call of create_bbb_json: its local state
    \* ---- fixture discovery (FixtureScraper) ----
    disc,         \* per year of YEARS: the position of its fetch_fixtures task
    \* ---- match validator (CricketScraper.is_valid_match) ----
    val,          \* the scorecard handed to is_valid_match and what it returned
    \* ---- transform orchestrator (main of the transform modules) ----
    job,          \* the pool, the results main has consumed, its counters
    \* ---- crawl operations (scrape_aucb, scrape_cricinfo of src/main.py) ----
    op,           \* one call: its environment, its position, what it returned
    \* ---- fixture persistence (FixtureScraper.scrape_fixtures, save_fixture) ----
    fx,           \* the fixture files over the crawl runs, and who wrote them
    \* ---- one call of CricketScraper.fetch_url ----
    fetched,      \* the url, the response it met and what it returned
    \* ---- provider-A transform of one match (process_match of aucb.py) ----
    flatten,      \* the innings documents read, all_balls, what was written
    \* ---- crawl entry point (main of aucb_bbb_scrape.py) ----
    crawl_main    \* the position of main(), its two stages, what it returned

crawlVars ==
    <<store, run, pc, fixture_ids, urls, batch_i, task, fetch_log, saved_in,
      current_proxy_index>>
xfVars == <<doc, xf>>
otherVars == <<disc, val, job, op, fx, fetched, flatten, crawl_main>>
vars ==
    <<store, run, pc, fixture_ids, urls, batch_i, task, fetch_log, saved_in,
      current_proxy_index, doc, xf, disc, val, job, op, fx, fetched, flatten, crawl_main>>

\* Python's None is the empty tuple and a present value v the 1-tuple <<v>>.
None == <<>>

Some(v) == <<v>>

Max(S) == CHOOSE x \in S : \A y \in S : y <= x

Min2(a, b) == IF a <= b THEN a ELSE b

(***************************************************************************)
(*                               THE CRAWLER                               *)
(***************************************************************************)

\* Bounds of the crawler model.
MaxFixtureId == 2      \* fixture ids are 1..MaxFixtureId
UrlCap == 2            \* the cap of generate_urls (the code: 1000)
BatchSize == 3         \* batch_size of scrape (the code: 1000)
ConcurrencyLimit == 2  \* permits of self.semaphore (the code: CONCURRENCY_LIMIT = 300)
MaxRuns == 2           \* crawl runs modelled
ProxyCount == 2        \* len(PROXY_LIST) (the code: 100)

FixtureIds == 1..MaxFixtureId

\* The document kinds generate_urls asks for, in the order it appends them:
\* the scorecard, then range(1, 5).
UrlTypes == <<"scorecard", "inning1", "inning2", "inning3", "inning4">>

Path(fixture_id, type) == [fixture_id |-> fixture_id, type |-> type]

file_exists(st, path) == path \in st

\* load_fixture_ids_from_directory: the ids whose fixture.json exists.
load_fixture_ids_from_directory(st) ==
    {f \in FixtureIds : file_exists(st, Path(f, "fixture"))}

\* Mutant of SaveWrites: no payload is validated.
SaveWrites_NoGate(type, valid) == TRUE

\* Mutant of UrlsOfFixture: the exists-check is left out.
UrlsOfFixture_NoExistsCheck(st, fixture_id) ==
    [k \in 1..Len(UrlTypes) |-> Path(fixture_id, UrlTypes[k])]

\* The url_infos generate_urls appends for one fixture id.
UrlsOfFixture(st, fixture_id) ==
    LET all == [k \in 1..Len(UrlTypes) |-> Path(fixture_id, UrlTypes[k])]
    IN  SelectSeq(all, LAMBDA u : ~file_exists(st, u))

\* Mutant of GenerateFrom: the ids are visited in ascending order.
RECURSIVE GenerateFrom_Ascending(_, _, _)
GenerateFrom_Ascending(st, ids, acc) ==
    IF ids = {} THEN acc
    ELSE LET fixture_id == CHOOSE x \in ids : \A y \in ids : x <= y
             more == acc \o UrlsOfFixture(st, fixture_id)
         IN  IF Len(more) > UrlCap THEN more
             ELSE GenerateFrom_Ascending(st, ids \ {fixture_id}, more)

\* Mutant of GenerateFrom: the cap is tested before a fixture is visited,
\* and met by a count equal to it.
RECURSIVE GenerateFrom_CapBefore(_, _, _)
GenerateFrom_CapBefore(st, ids, acc) ==
    IF ids = {} \/ Len(acc) >= UrlCap THEN acc
    ELSE LET fixture_id == Max(ids)
         IN  GenerateFrom_CapBefore(st, ids \ {fixture_id},
                                    acc \o UrlsOfFixture(st, fixture_id))

RECURSIVE GenerateFrom(_, _, _)
GenerateFrom(st, ids, acc) ==
    IF ids = {} THEN acc
    ELSE LET fixture_id == Max(ids)
             more == acc \o UrlsOfFixture(st, fixture_id)
         IN  IF Len(more) > UrlCap THEN more
             ELSE GenerateFrom(st, ids \ {fixture_id}, more)

generate_urls(st, ids) == GenerateFrom(st, ids, <<>>)

\* PROXY_LIST: the proxies numbered range(1, 101), here 1..ProxyCount.
PROXY_LIST == [i \in 1..ProxyCount |-> i]

\* Mutant of get_next_proxy: the cursor is not advanced.
get_next_proxy_NoAdvance(index) ==
    [proxy |-> PROXY_LIST[index + 1], index |-> index]

\* get_next_proxy: the proxy returned and the cursor left behind.
get_next_proxy(index) ==
    [proxy |-> PROXY_LIST[index + 1], index |-> (index + 1) % Len(PROXY_LIST)]

\* What one GET can come back with: an exception of the transport, or a
\* response [status, json (the body decodes), nkeys (top-level keys of the
\* decoded body, 2 standing for "two or more"), valid (is_valid_match of it)].
Responses ==
    {[exc |-> TRUE, status |-> 0, json |-> FALSE, nkeys |-> 0, valid |-> FALSE],
     [exc |-> FALSE, status |-> 404, json |-> FALSE, nkeys |-> 0, valid |-> FALSE],
     [exc |-> FALSE, status |-> 200, json |-> FALSE, nkeys |-> 0, valid |-> FALSE],
     [exc |-> FALSE, status |-> 200, json |-> TRUE, nkeys |-> 0, valid |-> FALSE],
     [exc |-> FALSE, status |-> 200, json |-> TRUE, nkeys |-> 1, valid |-> FALSE],
     [exc |-> FALSE, status |-> 200, json |-> TRUE, nkeys |-> 2, valid |-> FALSE],
     [exc |-> FALSE, status |-> 200, json |-> TRUE, nkeys |-> 2, valid |-> TRUE]}

\* fetch_url's classification of a response: TRUE when a result is returned.
FetchKeeps(resp) ==
    /\ ~resp.exc
    /\ resp.status = 200
    /\ resp.json
    /\ ~(resp.nkeys > 0 /\ resp.nkeys <= 1)

\* save_data's gate: a scorecard is written only if is_valid_match accepts it.
SaveWrites(type, valid) == ~(type = "scorecard" /\ ~valid)

Batch == SubSeq(urls, batch_i + 1, Min2(batch_i + BatchSize, Len(urls)))

\* Mutant of InFlight: a fetch that returns no result keeps its permit.
InFlight_HeldAfterDrop == {k \in DOMAIN task : task[k] \in {"inflight", "dropped"}}

\* The fetches inside "async with self.semaphore": those holding a permit.
InFlight == {k \in DOMAIN task : task[k] = "inflight"}

CrawlInit ==
    /\ \E ids \in SUBSET FixtureIds :
          store = {Path(f, "fixture") : f \in ids}
    /\ run = 1
    /\ pc = "idle"
    /\ fixture_ids = {}
    /\ urls = <<>>
    /\ batch_i = 0
    /\ task = <<>>
    /\ fetch_log = {}
    /\ saved_in = [p \in {} |-> 0]
    /\ current_proxy_index = 0

\* scrape(), up to the first batch: load the frontier, generate the urls.
StartScrape ==
    /\ pc = "idle"
    /\ run <= MaxRuns
    /\ LET ids == load_fixture_ids_from_directory(store)
           us == generate_urls(store, ids)
       IN  /\ fixture_ids' = ids
           /\ IF ids = {} \/ us = <<>>
              THEN /\ urls' = <<>>
                   /\ task' = <<>>
                   /\ pc' = "idle"
                   /\ run' = run + 1
              ELSE /\ urls' = us
                   /\ task' = [k \in 1..Min2(BatchSize, Len(us)) |-> "waiting"]
                   /\ pc' = "fetching"
                   /\ run' = run
    /\ batch_i' = 0
    /\ current_proxy_index' = 0
    /\ UNCHANGED <<store, fetch_log, saved_in, xfVars, otherVars>>

\* Mutant of FetchStart: the request is made without taking a permit.
FetchStart_NoSemaphore ==
    /\ pc = "fetching"
    /\ \E k \in DOMAIN task :
          /\ task[k] = "waiting"
          /\ \A j \in 1..(k - 1) : task[j] # "waiting"
          /\ LET next == get_next_proxy(current_proxy_index)
             IN  /\ current_proxy_index' = next.index
                 /\ fetch_log' = fetch_log \cup
                       {[run |-> run, fixture_id |-> Batch[k].fixture_id,
                         type |-> Batch[k].type,
                         call |-> Cardinality({e \in fetch_log : e.run = run}),
                         proxy |-> next.proxy]}
          /\ task' = [task EXCEPT ![k] = "inflight"]
    /\ UNCHANGED <<store, run, pc, fixture_ids, urls, batch_i, saved_in, xfVars, otherVars>>

\* fetch_url up to its request: the next task in list order takes a permit
\* and, holding it, a proxy from the rotation.  call is history: the number
\* of calls of get_next_proxy this crawler instance made before this one.
FetchStart ==
    /\ pc = "fetching"
    /\ \E k \in DOMAIN task :
          /\ task[k] = "waiting"
          /\ \A j \in 1..(k - 1) : task[j] # "waiting"
          /\ Cardinality(InFlight) < ConcurrencyLimit
          /\ LET next == get_next_proxy(current_proxy_index)
             IN  /\ current_proxy_index' = next.index
                 /\ fetch_log' = fetch_log \cup
                       {[run |-> run, fixture_id |-> Batch[k].fixture_id,
                         type |-> Batch[k].type,
                         call |-> Cardinality({e \in fetch_log : e.run = run}),
                         proxy |-> next.proxy]}
          /\ task' = [task EXCEPT ![k] = "inflight"]
    /\ UNCHANGED <<store, run, pc, fixture_ids, urls, batch_i, saved_in, xfVars, otherVars>>

\* fetch_url from the response on: classify, release the permit.
FetchReturn ==
    /\ pc = "fetching"
    /\ \E k \in DOMAIN task, resp \in Responses :
          /\ task[k] = "inflight"
          /\ resp.valid => Batch[k].type = "scorecard"
          /\ task' = [task EXCEPT ![k] = IF ~FetchKeeps(resp) THEN "dropped"
                                         ELSE IF resp.valid THEN "kept_valid"
                                         ELSE "kept"]
    /\ UNCHANGED <<store, run, pc, fixture_ids, urls, batch_i, fetch_log, saved_in,
                   current_proxy_index, xfVars, otherVars>>

\* process_batch after the first gather: every fetch has returned.
GatherFetches ==
    /\ pc = "fetching"
    /\ \A k \in DOMAIN task : task[k] \in {"dropped", "kept", "kept_valid"}
    /\ pc' = "saving"
    /\ UNCHANGED <<store, run, fixture_ids, urls, batch_i, task, fetch_log, saved_in,
                   current_proxy_index, xfVars, otherVars>>

\* Mutant of SaveData: the exception of write_file is not caught, so that a
\* failed write ends the run there and then.
SaveData_WriteRaises ==
    /\ pc = "saving"
    /\ \E k \in DOMAIN task, ok \in BOOLEAN :
          /\ task[k] \in {"kept", "kept_valid"}
          /\ \A j \in 1..(k - 1) : task[j] \notin {"kept", "kept_valid"}
          /\ LET u == Batch[k]
                 gate == SaveWrites(u.type, task[k] = "kept_valid")
                 writes == gate /\ ok
             IN  /\ store' = IF writes THEN store \cup {u} ELSE store
                 /\ saved_in' = IF writes
                                THEN [p \in DOMAIN saved_in \cup {u} |->
                                        IF p = u THEN run ELSE saved_in[p]]
                                ELSE saved_in
                 /\ task' = [task EXCEPT ![k] = IF ~gate THEN "rejected"
                                                ELSE IF ok THEN "saved" ELSE "unsaved"]
                 /\ pc' = IF gate /\ ~ok THEN "idle" ELSE pc
                 /\ run' = IF gate /\ ~ok THEN run + 1 ELSE run
    /\ UNCHANGED <<fixture_ids, urls, batch_i, fetch_log,
                   current_proxy_index, xfVars, otherVars>>

\* save_data of the next kept result: "rejected" at the validation gate, or
\* written ("saved"), or write_file raised (ok = FALSE, "unsaved").
SaveData ==
    /\ pc = "saving"
    /\ \E k \in DOMAIN task, ok \in BOOLEAN :
          /\ task[k] \in {"kept", "kept_valid"}
          /\ \A j \in 1..(k - 1) : task[j] \notin {"kept", "kept_valid"}
          /\ LET u == Batch[k]
                 gate == SaveWrites(u.type, task[k] = "kept_valid")
                 writes == gate /\ ok
             IN  /\ store' = IF writes THEN store \cup {u} ELSE store
                 /\ saved_in' = IF writes
                                THEN [p \in DOMAIN saved_in \cup {u} |->
                                        IF p = u THEN run ELSE saved_in[p]]
                                ELSE saved_in
                 /\ task' = [task EXCEPT ![k] = IF ~gate THEN "rejected"
                                                ELSE IF ok THEN "saved" ELSE "unsaved"]
    /\ UNCHANGED <<run, pc, fixture_ids, urls, batch_i, fetch_log,
                   current_proxy_index, xfVars, otherVars>>

\* scrape()'s loop step: the batch is done, take the next one or finish.
NextBatch ==
    /\ pc = "saving"
    /\ \A k \in DOMAIN task : task[k] \notin {"kept", "kept_valid"}
    /\ IF batch_i + BatchSize < Len(urls)
       THEN /\ batch_i' = batch_i + BatchSize
            /\ task' = [k \in 1..Min2(BatchSize, Len(urls) - (batch_i + BatchSize)) |-> "waiting"]
            /\ pc' = "fetching"
            /\ run' = run
       ELSE /\ batch_i' = 0
            /\ task' = <<>>
            /\ pc' = "idle"
            /\ run' = run + 1
    /\ urls' = IF batch_i + BatchSize < Len(urls) THEN urls ELSE <<>>
    /\ UNCHANGED <<store, fixture_ids, fetch_log, saved_in, current_proxy_index,
                   xfVars, otherVars>>

XfIdle ==
    /\ doc = None
    /\ xf = None

DiscIdle == disc = None

ValIdle == val = None

JobIdle == job = None

OpIdle == op = None

FxIdle == fx = None

FetchedIdle == fetched = None

FlattenIdle == flatten = None

MainIdle == crawl_main = None

\* Every other component at rest.
OtherIdle ==
    /\ DiscIdle /\ ValIdle /\ JobIdle /\ OpIdle /\ FxIdle /\ FetchedIdle
    /\ FlattenIdle /\ MainIdle

CrawlNext ==
    \/ StartScrape
    \/ FetchStart
    \/ FetchReturn
    \/ GatherFetches
    \/ SaveData
    \/ NextBatch

InitCrawl == CrawlInit /\ XfIdle /\ OtherIdle

SpecCrawl == InitCrawl /\ [][CrawlNext]_vars

\* The crawl under the event loop's scheduling: a step that can be taken (a
\* task that can start, a request that returns or times out, a save) is
\* taken in the end.
SpecCrawlFair == InitCrawl /\ [][CrawlNext]_vars /\ WF_vars(CrawlNext)

(***************************************************************************)
(* The crawl run after run, each run of scrape() taken as two steps, with  *)
(* no bound on the number of runs: generate the urls; fetch and save them. *)
(***************************************************************************)

\* scrape() up to its batches: load the frontier, generate the urls.
RunStart ==
    /\ pc = "idle"
    /\ LET ids == load_fixture_ids_from_directory(store)
       IN  /\ fixture_ids' = ids
           /\ urls' = generate_urls(store, ids)
    /\ pc' = "fetching"
    /\ UNCHANGED <<store, run, batch_i, task, fetch_log, saved_in,
                   current_proxy_index, xfVars, otherVars>>

\* The batches of the run: every url is requested, and the document of any
\* of them is saved or not (the fetch dropped, the scorecard rejected, the
\* write failed); scrape() returns.
RunFinish ==
    /\ pc = "fetching"
    /\ \E saved \in SUBSET {urls[k] : k \in DOMAIN urls} : store' = store \cup saved
    /\ pc' = "idle"
    /\ urls' = <<>>
    /\ UNCHANGED <<run, fixture_ids, batch_i, task, fetch_log, saved_in,
                   current_proxy_index, xfVars, otherVars>>

RunsNext ==
    \/ RunStart
    \/ RunFinish

\* The scheduler starts a run every day and every run ends (each request
\* has a timeout): the next step of the crawl is always taken.
SpecRuns == InitCrawl /\ [][RunsNext]_vars /\ WF_vars(RunsNext)

(***************************************************************************)
(* One call of fetch_url on its own, with the response it meets on record. *)
(***************************************************************************)

\* Bound of the fetch model.
MaxKeys == 3   \* top-level keys of a decoded body: 0..MaxKeys

\* What the GET of one call can come back with: exc (the transport raised),
\* the status, json (the body decodes) and the number of top-level keys of
\* the decoded body.
FetchResponses ==
    [exc : BOOLEAN, status : {200, 404, 500}, json : BOOLEAN, nkeys : 0..MaxKeys]

\* fetch_url has been called on a url and its request has met a response.
FetchedInit ==
    \E f \in FixtureIds, k \in DOMAIN UrlTypes, resp \in FetchResponses :
       fetched = [fixture_id |-> f, type |-> UrlTypes[k], resp |-> resp,
                  pc |-> "requested", result |-> None]

\* fetch_url from the response on: None, or the dictionary of the fixture
\* id, the type and the data (here the number of keys of the data).
FetchOne ==
    /\ fetched # None
    /\ fetched.pc = "requested"
    /\ fetched' = [fetched EXCEPT
                     !.pc = "returned",
                     !.result = IF FetchKeeps(fetched.resp)
                                THEN Some([fixture_id |-> fetched.fixture_id,
                                           type |-> fetched.type,
                                           data |-> fetched.resp.nkeys])
                                ELSE None]
    /\ UNCHANGED <<crawlVars, xfVars, disc, val, job, op, fx, flatten, crawl_main>>

(***************************************************************************)
(*                          FIXTURE DISCOVERY                              *)
(* FixtureScraper.scrape_fixtures up to its first gather: one task of      *)
(* fetch_fixtures per year, all sharing one semaphore.                     *)
(***************************************************************************)

\* Bounds of the discovery model.
YearCount == 3                 \* len(YEARS) (the code: range(2025, 2026))
FixturesConcurrencyLimit == 2  \* the code: FIXTURES_CONCURRENCY_LIMIT = 5

FIXTURES_DELAY_SECONDS == 3

YEARS == 2025..(2024 + YearCount)

\* The tasks inside "async with semaphore".
SlotHolders == {y \in DOMAIN disc : disc[y].pc \in {"requesting", "sleeping"}}

\* scrape_fixtures has created its tasks; none has run yet.  slept is the
\* time, in seconds, a task has spent in its asyncio.sleep; outcome is that
\* of its request: "ok", "raised" (the get, raise_for_status or json raised)
\* or "bad_body" (the body decoded to something without a get method).
DiscInit ==
    disc = [y \in YEARS |-> [pc |-> "waiting", slept |-> 0, outcome |-> "none"]]

\* "async with semaphore": the tasks enter in the order they were created.
DiscAcquire ==
    /\ disc # None
    /\ \E y \in DOMAIN disc :
          /\ disc[y].pc = "waiting"
          /\ \A z \in DOMAIN disc : z < y => disc[z].pc # "waiting"
          /\ Cardinality(SlotHolders) < FixturesConcurrencyLimit
          /\ disc' = [disc EXCEPT ![y].pc = "requesting"]
    /\ UNCHANGED <<crawlVars, xfVars, val, job, op, fx, fetched, flatten, crawl_main>>

\* The request returns or raises; either way the task goes to sleep, still
\* inside the semaphore.
DiscRespond ==
    /\ disc # None
    /\ \E y \in DOMAIN disc, outcome \in {"ok", "raised", "bad_body"} :
          /\ disc[y].pc = "requesting"
          /\ disc' = [disc EXCEPT ![y] =
                         [pc |-> "sleeping", slept |-> 0, outcome |-> outcome]]
    /\ UNCHANGED <<crawlVars, xfVars, val, job, op, fx, fetched, flatten, crawl_main>>

\* After the sleep of the try block "return data.get(...)" raises: the
\* except block sleeps once more.
DiscReturnRaises ==
    /\ disc # None
    /\ \E y \in DOMAIN disc :
          /\ disc[y].pc = "sleeping"
          /\ disc[y].slept = FIXTURES_DELAY_SECONDS
          /\ disc[y].outcome = "bad_body"
          /\ disc' = [disc EXCEPT ![y] =
                         [pc |-> "sleeping", slept |-> 0, outcome |-> "raised"]]
    /\ UNCHANGED <<crawlVars, xfVars, val, job, op, fx, fetched, flatten, crawl_main>>

\* A second passes: for every task that is asleep.
DiscTick ==
    /\ disc # None
    /\ \E y \in DOMAIN disc :
          disc[y].pc = "sleeping" /\ disc[y].slept < FIXTURES_DELAY_SECONDS
    /\ disc' = [y \in DOMAIN disc |->
                  IF disc[y].pc = "sleeping" /\ disc[y].slept < FIXTURES_DELAY_SECONDS
                  THEN [disc[y] EXCEPT !.slept = @ + 1]
                  ELSE disc[y]]
    /\ UNCHANGED <<crawlVars, xfVars, val, job, op, fx, fetched, flatten, crawl_main>>

\* Mutant of DiscRelease: the task leaves the semaphore without waiting for
\* its sleep to end.
DiscRelease_BeforeDelay ==
    /\ disc # None
    /\ \E y \in DOMAIN disc :
          /\ disc[y].pc = "sleeping"
          /\ disc[y].outcome # "bad_body"
          /\ disc' = [disc EXCEPT ![y].pc = "done"]
    /\ UNCHANGED <<crawlVars, xfVars, val, job, op, fx, fetched, flatten, crawl_main>>

\* The sleep is over: the task returns, which releases its slot.
DiscRelease ==
    /\ disc # None
    /\ \E y \in DOMAIN disc :
          /\ disc[y].pc = "sleeping"
          /\ disc[y].slept = FIXTURES_DELAY_SECONDS
          /\ disc[y].outcome # "bad_body"
          /\ disc' = [disc EXCEPT ![y].pc = "done"]
    /\ UNCHANGED <<crawlVars, xfVars, val, job, op, fx, fetched, flatten, crawl_main>>

DiscNext ==
    \/ DiscAcquire
    \/ DiscRespond
    \/ DiscTick
    \/ DiscReturnRaises
    \/ DiscRelease

(***************************************************************************)
(*                           THE MATCH VALIDATOR                           *)
(* A scorecard is [fixture ("dict", or "null" for a fixture that is no     *)
(* object), isWomensCompetition (None when absent, else Some(flag)),       *)
(* startDateTime (None when absent, else Some([parses, year]), parses      *)
(* saying that fromisoformat accepts the string), gameTypeId and           *)
(* resultType (None when absent, else Some(value))].                       *)
(***************************************************************************)

\* Mutant of is_valid_match: an abandoned match is accepted.
is_valid_match_AbandonedAccepted(data) ==
    IF data.fixture # "dict" THEN FALSE
    ELSE IF data.isWomensCompetition = None \/ data.isWomensCompetition[1] THEN FALSE
    ELSE IF data.startDateTime = None THEN FALSE
    ELSE IF ~data.startDateTime[1].parses THEN FALSE
    ELSE IF data.startDateTime[1].year < 2019 THEN FALSE
    ELSE IF data.gameTypeId = None \/ data.gameTypeId[1] \notin {1, 2, 3, 6, 24} THEN FALSE
    ELSE IF data.resultType = None \/ data.resultType[1] = "No Result" THEN FALSE
    ELSE TRUE

\* is_valid_match.  The first test stands for the AttributeError of
\* None.get(...), the fourth for the ValueError of fromisoformat: both are
\* caught and answered with False.  An absent isWomensCompetition reads as
\* True and an absent resultType as "No Result".
is_valid_match(data) ==
    IF data.fixture # "dict" THEN FALSE
    ELSE IF data.isWomensCompetition = None \/ data.isWomensCompetition[1] THEN FALSE
    ELSE IF data.startDateTime = None THEN FALSE
    ELSE IF ~data.startDateTime[1].parses THEN FALSE
    ELSE IF data.startDateTime[1].year < 2019 THEN FALSE
    ELSE IF data.gameTypeId = None \/ data.gameTypeId[1] \notin {1, 2, 3, 6, 24} THEN FALSE
    ELSE IF data.resultType = None \/ data.resultType[1] \in {"No Result", "Abandoned"}
         THEN FALSE
    ELSE TRUE

\* The scorecards the validator is checked on.
Scorecards ==
    {[fixture |-> "null", isWomensCompetition |-> None, startDateTime |-> None,
      gameTypeId |-> None, resultType |-> None]}
    \cup
    [fixture : {"dict"},
     isWomensCompetition : {None, Some(TRUE), Some(FALSE)},
     startDateTime : {None, Some([parses |-> FALSE, year |-> 0]),
                      Some([parses |-> TRUE, year |-> 2018]),
                      Some([parses |-> TRUE, year |-> 2019]),
                      Some([parses |-> TRUE, year |-> 2025])},
     gameTypeId : {None, Some(1), Some(4), Some(24)},
     resultType : {None, Some("No Result"), Some("Abandoned"), Some("Won")}]

ValInit == \E data \in Scorecards : val = [data |-> data, result |-> None]

\* The call of is_valid_match.
Validate ==
    /\ val # None
    /\ val.result = None
    /\ val' = [val EXCEPT !.result = Some(is_valid_match(val.data))]
    /\ UNCHANGED <<crawlVars, xfVars, disc, job, op, fx, fetched, flatten, crawl_main>>

(***************************************************************************)
(*                       THE TRANSFORM ORCHESTRATOR                        *)
(* main() of src/transform/aucb.py (kind "aucb", units are matches) and of *)
(* src/transform/cricinfo.py (kind "cricinfo", units are files): a pool of *)
(* workers maps the unit function over the units, and main counts the      *)
(* results as imap_unordered yields them, in the order of completion.      *)
(***************************************************************************)

\* Bounds of the orchestrator model.
MaxUnits == 3     \* units of a batch: 0..MaxUnits
NumWorkers == 2   \* processes of the pool (the code: cpu_count() - 1)
MaxStoreUnits == 2  \* units of a batch when every state of the store is tried

\* What the unit function returns: "ok" is (True, id, None), "skipped" is
\* (True, id, "Skipped - ..."), "failed" is (False, id, message).
UnitOutcomes == {"ok", "skipped", "failed"}

\* Mutant of main_result: only the success counter is looked at.
main_result_SkippedIgnored(kind, succeeded, skipped) == succeeded > 0

\* The value main returns after the pool is done.
main_result(kind, succeeded, skipped) ==
    IF kind = "aucb" THEN succeeded > 0 \/ skipped > 0 ELSE succeeded > 0

\* required_files of process_match, in the order it checks them.
REQUIRED_FILES == <<"fixture", "inning1", "inning2", "scorecard">>

\* What the store holds for one match when process_match is called: whether
\* fixture.json can be read and what it says ("unreadable": read_file raises,
\* the file absent or undecodable; "no_result": resultType is "No Result" or
\* "Abandoned"), which of the other raw documents exist, and whether the
\* processing inside the try block raises.
MatchRaw ==
    [fixture : {"ok", "no_result", "unreadable"},
     present : SUBSET {"inning1", "inning2", "scorecard"},
     raises : BOOLEAN]

\* What the store holds for one commentary file when process_single_file is
\* called on it: "not_found" (FileNotFoundError), "bad_json"
\* (orjson.JSONDecodeError), "raises" (any other exception), "ok".
FileRaw == [input : {"ok", "not_found", "bad_json", "raises"}]

\* The output path of a unit: "absent", "old" (there before the job started)
\* or "new" (written by this job).
Units(kind) ==
    [raw : IF kind = "aucb" THEN MatchRaw ELSE FileRaw,
     output : {"absent", "old"}]

\* Three units per kind, one for each outcome of the unit function.
BasicUnits(kind) ==
    IF kind = "aucb"
    THEN {[raw |-> [fixture |-> "ok", present |-> {"inning1", "inning2", "scorecard"},
                    raises |-> FALSE], output |-> "absent"],
          [raw |-> [fixture |-> "ok", present |-> {"inning1", "inning2", "scorecard"},
                    raises |-> FALSE], output |-> "old"],
          [raw |-> [fixture |-> "ok", present |-> {"inning1", "inning2"},
                    raises |-> FALSE], output |-> "absent"]}
    ELSE {[raw |-> [input |-> "ok"], output |-> "absent"],
          [raw |-> [input |-> "ok"], output |-> "old"],
          [raw |-> [input |-> "not_found"], output |-> "absent"]}

\* A value the unit function returns, (success, id, message), with the file
\* a "Missing required file" message names and the output path as it leaves
\* it.
UnitReturn(success, message, file, output) ==
    [success |-> success, message |-> message, file |-> file, output |-> output]

\* Mutant of process_match: the output path is not looked at.
process_match_NoExistsCheck(u) ==
    LET present == u.raw.present \cup {"fixture"}
        missing == {k \in DOMAIN REQUIRED_FILES : REQUIRED_FILES[k] \notin present}
    IN  IF u.raw.fixture = "unreadable"
        THEN UnitReturn(FALSE, Some("Error reading fixture data"), "", u.output)
        ELSE IF u.raw.fixture = "no_result"
        THEN UnitReturn(TRUE, Some("Skipped - no result or abandoned"), "", u.output)
        ELSE IF missing # {}
        THEN UnitReturn(FALSE, Some("Missing required file"),
                        REQUIRED_FILES[CHOOSE k \in missing : \A j \in missing : k <= j],
                        u.output)
        ELSE IF u.raw.raises
        THEN UnitReturn(FALSE, Some("Error processing match"), "", u.output)
        ELSE UnitReturn(TRUE, None, "", "new")

\* Mutant of process_match: the required files are not checked, a missing one
\* makes read_file raise inside the try block.
process_match_NoRequiredCheck(u) ==
    LET present == u.raw.present \cup {"fixture"}
        missing == {k \in DOMAIN REQUIRED_FILES : REQUIRED_FILES[k] \notin present}
    IN  IF u.raw.fixture = "unreadable"
        THEN UnitReturn(FALSE, Some("Error reading fixture data"), "", u.output)
        ELSE IF u.raw.fixture = "no_result"
        THEN UnitReturn(TRUE, Some("Skipped - no result or abandoned"), "", u.output)
        ELSE IF u.output # "absent"
        THEN UnitReturn(TRUE, Some("Skipped - file already processed"), "", u.output)
        ELSE IF u.raw.raises \/ "scorecard" \notin present
        THEN UnitReturn(FALSE, Some("Error processing match"), "", u.output)
        ELSE UnitReturn(TRUE, None, "", "new")

\* process_match of src/transform/aucb.py.
process_match(u) ==
    LET present == u.raw.present \cup {"fixture"}
        missing == {k \in DOMAIN REQUIRED_FILES : REQUIRED_FILES[k] \notin present}
    IN  IF u.raw.fixture = "unreadable"
        THEN UnitReturn(FALSE, Some("Error reading fixture data"), "", u.output)
        ELSE IF u.raw.fixture = "no_result"
        THEN UnitReturn(TRUE, Some("Skipped - no result or abandoned"), "", u.output)
        ELSE IF u.output # "absent"
        THEN UnitReturn(TRUE, Some("Skipped - file already processed"), "", u.output)
        ELSE IF missing # {}
        THEN UnitReturn(FALSE, Some("Missing required file"),
                        REQUIRED_FILES[CHOOSE k \in missing : \A j \in missing : k <= j],
                        u.output)
        ELSE IF u.raw.raises
        THEN UnitReturn(FALSE, Some("Error processing match"), "", u.output)
        ELSE UnitReturn(TRUE, None, "", "new")

\* process_single_file of src/transform/cricinfo.py.
process_single_file(u) ==
    IF u.output # "absent"
    THEN UnitReturn(TRUE, Some("Skipped - file already processed"), "", u.output)
    ELSE IF u.raw.input = "not_found"
    THEN UnitReturn(FALSE, Some("Error: File not found"), "", u.output)
    ELSE IF u.raw.input = "bad_json"
    THEN UnitReturn(FALSE, Some("Error: Could not decode JSON"), "", u.output)
    ELSE IF u.raw.input = "raises"
    THEN UnitReturn(FALSE, Some("An unexpected error occurred"), "", u.output)
    ELSE UnitReturn(TRUE, None, "", "new")

\* The messages that contain "Skipped".
SkippedMessages ==
    {Some("Skipped - no result or abandoned"), Some("Skipped - file already processed")}

\* How the loop of main reads a returned tuple.
UnitOutcome(r) ==
    IF ~r.success THEN "failed"
    ELSE IF r.message \in SkippedMessages THEN "skipped"
    ELSE "ok"

\* main has listed its units and zeroed its counters; no unit has run.
\* existed is history: whether the unit's output was there at the start.
JobStart(kind, units) ==
    job = [kind |-> kind,
           units |-> units,
           existed |-> [u \in DOMAIN units |-> units[u].output # "absent"],
           outcome |-> [u \in DOMAIN units |-> "none"],
           message |-> [u \in DOMAIN units |-> None],
           file |-> [u \in DOMAIN units |-> ""],
           state |-> [u \in DOMAIN units |-> "queued"],
           results |-> <<>>,
           consumed |-> <<>>,
           processed |-> 0,
           succeeded |-> 0, failed |-> 0, skipped |-> 0,
           pc |-> "main",
           result |-> None]

\* A job over up to MaxUnits units, each with one of the three outcomes.
JobInit ==
    \E kind \in {"aucb", "cricinfo"}, n \in 0..MaxUnits :
       \E units \in [1..n -> BasicUnits(kind)] : JobStart(kind, units)

\* A job over up to MaxStoreUnits units, each in any state of the store.
UnitInit ==
    \E kind \in {"aucb", "cricinfo"}, n \in 0..MaxStoreUnits :
       \E units \in [1..n -> Units(kind)] : JobStart(kind, units)

\* "if not match_ids: return False" / "if not json_files: return False".
JobNoUnits ==
    /\ job # None
    /\ job.pc = "main"
    /\ DOMAIN job.outcome = {}
    /\ job' = [job EXCEPT !.pc = "returned", !.result = Some(FALSE)]
    /\ UNCHANGED <<crawlVars, xfVars, disc, val, op, fx, fetched, flatten, crawl_main>>

\* A free worker of the pool takes the next unit.
JobStartUnit ==
    /\ job # None
    /\ job.pc = "main"
    /\ \E u \in DOMAIN job.state :
          /\ job.state[u] = "queued"
          /\ \A v \in 1..(u - 1) : job.state[v] # "queued"
          /\ Cardinality({v \in DOMAIN job.state : job.state[v] = "running"}) < NumWorkers
          /\ job' = [job EXCEPT !.state[u] = "running"]
    /\ UNCHANGED <<crawlVars, xfVars, disc, val, op, fx, fetched, flatten, crawl_main>>

\* A worker runs the unit function on its unit: the output is written or
\* not, and the returned tuple joins those imap_unordered has to yield.
JobFinishUnit ==
    /\ job # None
    /\ \E u \in DOMAIN job.state :
          /\ job.state[u] = "running"
          /\ LET r == IF job.kind = "aucb" THEN process_match(job.units[u])
                                           ELSE process_single_file(job.units[u])
             IN  job' = [job EXCEPT !.state[u] = "finished",
                                    !.results = Append(@, u),
                                    !.units[u].output = r.output,
                                    !.outcome[u] = UnitOutcome(r),
                                    !.message[u] = r.message,
                                    !.file[u] = r.file]
    /\ UNCHANGED <<crawlVars, xfVars, disc, val, op, fx, fetched, flatten, crawl_main>>

\* Mutant of JobConsume: a skipped unit is counted as succeeded as well.
JobConsume_SkippedAlsoSucceeded ==
    /\ job # None
    /\ job.pc = "main"
    /\ job.results # <<>>
    /\ LET u == Head(job.results)
           o == job.outcome[u]
           success == o \in {"ok", "skipped"}
           counts_skipped == job.kind = "aucb" /\ o = "skipped"
       IN  job' = [job EXCEPT
                     !.results = Tail(@),
                     !.consumed = Append(@, u),
                     !.processed = @ + 1,
                     !.succeeded = IF success THEN @ + 1 ELSE @,
                     !.skipped = IF success /\ counts_skipped THEN @ + 1 ELSE @,
                     !.failed = IF ~success THEN @ + 1 ELSE @]
    /\ UNCHANGED <<crawlVars, xfVars, disc, val, op, fx, fetched, flatten, crawl_main>>

\* One iteration of "for success, id, error_message in results".
JobConsume ==
    /\ job # None
    /\ job.pc = "main"
    /\ job.results # <<>>
    /\ LET u == Head(job.results)
           o == job.outcome[u]
           success == o \in {"ok", "skipped"}
           counts_skipped == job.kind = "aucb" /\ o = "skipped"
       IN  job' = [job EXCEPT
                     !.results = Tail(@),
                     !.consumed = Append(@, u),
                     !.processed = @ + 1,
                     !.succeeded = IF success /\ ~counts_skipped THEN @ + 1 ELSE @,
                     !.skipped = IF success /\ counts_skipped THEN @ + 1 ELSE @,
                     !.failed = IF ~success THEN @ + 1 ELSE @]
    /\ UNCHANGED <<crawlVars, xfVars, disc, val, op, fx, fetched, flatten, crawl_main>>

\* The loop over the results is exhausted: main returns.
JobReturn ==
    /\ job # None
    /\ job.pc = "main"
    /\ DOMAIN job.outcome # {}
    /\ Len(job.consumed) = Len(job.outcome)
    /\ job' = [job EXCEPT !.pc = "returned",
                          !.result = Some(main_result(job.kind, job.succeeded, job.skipped))]
    /\ UNCHANGED <<crawlVars, xfVars, disc, val, op, fx, fetched, flatten, crawl_main>>

JobNext ==
    \/ JobNoUnits
    \/ JobStartUnit
    \/ JobFinishUnit
    \/ JobConsume
    \/ JobReturn

(***************************************************************************)
(*                          THE CRAWL OPERATIONS                           *)
(* scrape_aucb and scrape_cricinfo of src/main.py: run the crawler, then,  *)
(* if it succeeded and a transform url is configured, post to it.          *)
(***************************************************************************)

\* What requests.post can come back with: an exception of the transport
\* (timeout = 600 passed, connection refused) or a response with a status.
PostOutcomes ==
    {[exc |-> "", status_code |-> 200],
     [exc |-> "", status_code |-> 404],
     [exc |-> "", status_code |-> 500],
     [exc |-> "Timeout", status_code |-> 0],
     [exc |-> "ConnectionError", status_code |-> 0]}

\* The environment of one call: the entry point, what asyncio.run of the
\* crawler's main does ("true", "false": its return value; "raises"),
\* whether TRANSFORM_..._URL is set, and what the post will meet.
OpInit ==
    \E fn \in {"scrape_aucb", "scrape_cricinfo"},
       crawl \in {"true", "false", "raises"},
       transform_url \in BOOLEAN,
       post \in PostOutcomes :
       op = [fn |-> fn, crawl |-> crawl, transform_url |-> transform_url,
             post |-> post,
             pc |-> "start",
             scraping_success |-> None,
             posts |-> 0,
             result |-> None]

\* "scraping_success = asyncio.run(...)": the crawl returns or raises; an
\* exception is caught by the handler of the function, which returns error.
OpRunCrawl ==
    /\ op # None
    /\ op.pc = "start"
    /\ op' = IF op.crawl = "raises"
             THEN [op EXCEPT !.pc = "returned", !.result = Some("error")]
             ELSE [op EXCEPT !.pc = "crawled",
                             !.scraping_success = Some(op.crawl = "true")]
    /\ UNCHANGED <<crawlVars, xfVars, disc, val, job, fx, fetched, flatten, crawl_main>>

\* The else branch of "if scraping_success".
OpCrawlFailed ==
    /\ op # None
    /\ op.pc = "crawled"
    /\ op.scraping_success = Some(FALSE)
    /\ op' = [op EXCEPT !.pc = "returned", !.result = Some("error")]
    /\ UNCHANGED <<crawlVars, xfVars, disc, val, job, fx, fetched, flatten, crawl_main>>

\* The else branch of "if transform_url".
OpNoTrigger ==
    /\ op # None
    /\ op.pc = "crawled"
    /\ op.scraping_success = Some(TRUE)
    /\ ~op.transform_url
    /\ op' = [op EXCEPT !.pc = "returned", !.result = Some("success")]
    /\ UNCHANGED <<crawlVars, xfVars, disc, val, job, fx, fetched, flatten, crawl_main>>

\* Mutant of OpPost: the trigger is sent whatever the crawl returned.
OpPost_WhateverTheCrawl ==
    /\ op # None
    /\ op.pc = "crawled"
    /\ op.transform_url
    /\ op' = [op EXCEPT !.pc = "posting", !.posts = @ + 1]
    /\ UNCHANGED <<crawlVars, xfVars, disc, val, job, fx, fetched, flatten, crawl_main>>

\* "requests.post(transform_url, json={}, timeout=600)" is sent.
OpPost ==
    /\ op # None
    /\ op.pc = "crawled"
    /\ op.scraping_success = Some(TRUE)
    /\ op.transform_url
    /\ op' = [op EXCEPT !.pc = "posting", !.posts = @ + 1]
    /\ UNCHANGED <<crawlVars, xfVars, disc, val, job, fx, fetched, flatten, crawl_main>>

\* The post returns a response or raises; an exception is caught by the
\* handler of the function, which returns error.
OpPostReturns ==
    /\ op # None
    /\ op.pc = "posting"
    /\ op' = [op EXCEPT !.pc = "returned",
                        !.result = IF op.post.exc # "" THEN Some("error")
                                   ELSE IF op.post.status_code = 200 THEN Some("success")
                                   ELSE Some("partial_success")]
    /\ UNCHANGED <<crawlVars, xfVars, disc, val, job, fx, fetched, flatten, crawl_main>>

OpNext ==
    \/ OpRunCrawl
    \/ OpCrawlFailed
    \/ OpNoTrigger
    \/ OpPost
    \/ OpPostReturns

(***************************************************************************)
(*                          FIXTURE PERSISTENCE                            *)
(* FixtureScraper.scrape_fixtures after its gather (the filter and the     *)
(* save_fixture of every fixture retained), over the crawl runs of main(). *)
(***************************************************************************)

\* Bounds of the fixture persistence model.
MaxDiscoveryRuns == 2  \* crawl runs modelled
MaxListed == 2         \* fixtures upstream lists in one run

VALID_GAME_TYPE_IDS == {1, 2, 3, 6, 24}

\* PREV_DATE, '2025-05-01' unless the environment sets it; dates are written
\* yyyymmdd, which orders them as the code's string comparison does.
PREV_DATE == 20250501

\* The fixtures upstream can list: id 0 stands for a fixture without an id,
\* game type 4 is outside VALID_GAME_TYPE_IDS, and the start date is the
\* watermark itself or the day after.
ListedFixtures ==
    [id : 0..MaxFixtureId, gameTypeId : {1, 4}, startDate : {PREV_DATE, PREV_DATE + 1}]

\* Mutant of PassesFilter: the watermark date itself passes.
PassesFilter_OnOrAfter(f) ==
    /\ f.gameTypeId \in VALID_GAME_TYPE_IDS
    /\ f.startDate >= PREV_DATE

\* The test of the list comprehension filtered_fixtures.
PassesFilter(f) ==
    /\ f.gameTypeId \in VALID_GAME_TYPE_IDS
    /\ f.startDate > PREV_DATE

\* Mutant of save_fixture: a fixture file that exists is left alone.
save_fixture_OnlyIfAbsent(files, fixture, version, ok) ==
    IF fixture.id = 0 THEN [files |-> files, wrote |-> FALSE]
    ELSE IF files[fixture.id] # 0 THEN [files |-> files, wrote |-> FALSE]
    ELSE IF ok THEN [files |-> [files EXCEPT ![fixture.id] = version], wrote |-> TRUE]
    ELSE [files |-> files, wrote |-> FALSE]

\* save_fixture: the fixture files it leaves (per id, the version held, 0
\* for no file) and whether it wrote; ok = FALSE is write_file raising.
save_fixture(files, fixture, version, ok) ==
    IF fixture.id = 0 THEN [files |-> files, wrote |-> FALSE]
    ELSE IF ok THEN [files |-> [files EXCEPT ![fixture.id] = version], wrote |-> TRUE]
    ELSE [files |-> files, wrote |-> FALSE]

\* The first crawl run is about to list the fixtures; no fixture file
\* exists.  writes, failed and listings are history: per id the runs that
\* wrote its file, the (run, id) whose write raised, the listing of each run.
FxInit ==
    fx = [run |-> 1,
          pc |-> "discover",
          filtered |-> <<>>,
          k |-> 1,
          files |-> [f \in FixtureIds |-> 0],
          writes |-> [f \in FixtureIds |-> {}],
          failed |-> {},
          listings |-> <<>>]

\* scrape_fixtures from the gather to the filter: upstream lists what it
\* lists, and the fixtures that pass are retained in the order listed.
FilterFixtures ==
    /\ fx # None
    /\ fx.pc = "discover"
    /\ fx.run <= MaxDiscoveryRuns
    /\ \E all_fixtures \in UNION {[1..n -> ListedFixtures] : n \in 0..MaxListed} :
          fx' = [fx EXCEPT !.pc = "saving",
                           !.filtered = SelectSeq(all_fixtures, PassesFilter),
                           !.k = 1,
                           !.listings = Append(@, all_fixtures)]
    /\ UNCHANGED <<crawlVars, xfVars, disc, val, job, op, fetched, flatten, crawl_main>>

\* The next save task runs: save_fixture of one retained fixture, with the
\* content upstream has in this run.
SaveFixture ==
    /\ fx # None
    /\ fx.pc = "saving"
    /\ fx.k <= Len(fx.filtered)
    /\ \E ok \in BOOLEAN :
          LET fixture == fx.filtered[fx.k]
              r == save_fixture(fx.files, fixture, fx.run, ok)
          IN  fx' = [fx EXCEPT
                       !.k = @ + 1,
                       !.files = r.files,
                       !.writes = IF r.wrote
                                  THEN [@ EXCEPT ![fixture.id] = @ \cup {fx.run}]
                                  ELSE @,
                       !.failed = IF fixture.id # 0 /\ ~ok
                                  THEN @ \cup {<<fx.run, fixture.id>>}
                                  ELSE @]
    /\ UNCHANGED <<crawlVars, xfVars, disc, val, job, op, fetched, flatten, crawl_main>>

\* The rest of main(): CricketScraper().scrape(), which reads the fixture
\* files to build its frontier and writes none of them; the run is over.
ScrapeMatches ==
    /\ fx # None
    /\ fx.pc = "saving"
    /\ fx.k > Len(fx.filtered)
    /\ fx' = [fx EXCEPT !.pc = "discover", !.run = @ + 1, !.filtered = <<>>, !.k = 1]
    /\ UNCHANGED <<crawlVars, xfVars, disc, val, job, op, fetched, flatten, crawl_main>>

FxNext ==
    \/ FilterFixtures
    \/ SaveFixture
    \/ ScrapeMatches

(***************************************************************************)
(*                         CLAIMS ABOUT THE CRAWLER                        *)
(***************************************************************************)

Range(s) == {s[k] : k \in DOMAIN s}

Last(s) == s[Len(s)]

Front(s) == SubSeq(s, 1, Len(s) - 1)

\* Mutant of SortKey: the innings number is left out of the key.
SortKey_NoInning(c) == <<0, c.overNumber, c.ballNumber>>

\* The key of comments.sort.
SortKey(c) == <<c.inningNumber, c.overNumber, c.ballNumber>>

\* Python's order on tuples of numbers.
TupleLess(a, b) ==
    \E k \in 1..Len(a) :
       /\ \A j \in 1..(k - 1) : a[j] = b[j]
       /\ a[k] < b[k]

\* Insert c into the sorted list s behind every element whose key is not
\* greater: list.sort is stable.
RECURSIVE InsertSorted(_, _)
InsertSorted(c, s) ==
    IF s = <<>> THEN <<c>>
    ELSE IF TupleLess(SortKey(c), SortKey(Last(s)))
         THEN Append(InsertSorted(c, Front(s)), Last(s))
         ELSE Append(s, c)

RECURSIVE StableSort(_)
StableSort(cs) ==
    IF cs = <<>> THEN <<>>
    ELSE InsertSorted(Last(cs), StableSort(Front(cs)))

IndexPermutations(n) ==
    {f \in [1..n -> 1..n] : \A j, k \in 1..n : j # k => f[j] # f[k]}

\* Mutant of comments_sort: an unstable sort, which may leave comments of
\* equal key in any order.
comments_sort_Unstable(cs) ==
    {s \in {[k \in 1..Len(cs) |-> cs[f[k]]] : f \in IndexPermutations(Len(cs))} :
        \A k \in 1..(Len(s) - 1) : ~TupleLess(SortKey(s[k + 1]), SortKey(s[k]))}

\* The lists comments.sort(key=...) can leave behind: just the one.
comments_sort(cs) == {StableSort(cs)}

\* Mutant of determine_outcome: the wide test comes before the wicket test.
determine_outcome_WideFirst(comment) ==
    IF comment.wides > 0 THEN "wide"
    ELSE IF comment.isWicket THEN "wicket"
    ELSE IF comment.noballs > 0 THEN
        IF comment.batsmanRuns = 4 THEN "noball+four"
        ELSE IF comment.batsmanRuns = 6 THEN "noball+six"
        ELSE IF comment.batsmanRuns > 0 THEN "noball+run"
        ELSE "noball"
    ELSE IF comment.isFour THEN "four"
    ELSE IF comment.isSix THEN "six"
    ELSE IF comment.batsmanRuns > 0 \/ comment.legbyes > 0 \/ comment.byes > 0 THEN
        IF comment.totalRuns > 0 THEN "run" ELSE "no run"
    ELSE "no run"

determine_outcome(comment) ==
    IF comment.isWicket THEN "wicket"
    ELSE IF comment.wides > 0 THEN "wide"
    ELSE IF comment.noballs > 0 THEN
        IF comment.batsmanRuns = 4 THEN "noball+four"
        ELSE IF comment.batsmanRuns = 6 THEN "noball+six"
        ELSE IF comment.batsmanRuns > 0 THEN "noball+run"
        ELSE "noball"
    ELSE IF comment.isFour THEN "four"
    ELSE IF comment.isSix THEN "six"
    ELSE IF comment.batsmanRuns > 0 \/ comment.legbyes > 0 \/ comment.byes > 0 THEN
        IF comment.totalRuns > 0 THEN "run" ELSE "no run"
    ELSE "no run"

\* format_ball_id: None for None, else the string "<over>.0<ball>", held as
\* the pair of its two numbers.
format_ball_id(overs_actual) ==
    IF overs_actual = None THEN None
    ELSE LET over_part == overs_actual[1] \div 10
             ball_part_decimal == overs_actual[1] % 10
         IN  Some(<<over_part, ball_part_decimal>>)

\* Mutant of Round2: the hundredths are cut off, not rounded.
Round2_Truncate(num, den) == (100 * num) \div den

\* round(num / den, 2) in hundredths, for num >= 0 and den > 0: the nearest
\* hundredth, an exact tie going to the even one.  (The code rounds a binary
\* float; where num/den is no exact tie the result is this one.)
Round2(num, den) ==
    LET q == (100 * num) \div den
        r == (100 * num) % den
    IN  IF 2 * r < den THEN q
        ELSE IF 2 * r > den THEN q + 1
        ELSE IF q % 2 = 0 THEN q ELSE q + 1

DEFAULT_MAX_BALLS == 120

max_balls(d) == IF d.scheduledOvers # 0 THEN d.scheduledOvers * 6 ELSE DEFAULT_MAX_BALLS

target(d) == IF d.runs0 # None THEN Some(d.runs0[1] + 1) ELSE None

\* Mutant of Stat: the counters of a key are set to zero on every event, not
\* only when the key is first seen.
Stat_Reinitialised(table, key, zero) == zero

\* A table of counters, a key that is absent reading as the zero record.
Stat(table, key, zero) == IF key \in DOMAIN table THEN table[key] ELSE zero

Put(table, key, value) ==
    [k \in DOMAIN table \cup {key} |-> IF k = key THEN value ELSE table[k]]

ZeroInning == [runs |-> 0, wkts |-> 0, balls |-> 0]

ZeroBatsman == [runs |-> 0, bf |-> 0]

ZeroBowler == [balls |-> 0, runs |-> 0, wkts |-> 0]

\* Mutant of BOWLER_DISMISSALS: a run-out (4) is credited to the bowler.
BOWLER_DISMISSALS_WithRunOut == {1, 2, 3, 4, 5, 11}

BOWLER_DISMISSALS == {1, 2, 3, 5, 11}

\* Mutant of is_legal_delivery: a no-ball counts as a legal ball.
is_legal_delivery_WidesOnly(comment) == comment.wides = 0

is_legal_delivery(comment) == comment.wides = 0 /\ comment.noballs = 0

\* Mutant of runs_conceded: the extras are taken off the runs off the bat.
runs_conceded_OffBat(comment) == comment.batsmanRuns - comment.byes - comment.legbyes

runs_conceded(comment) == comment.totalRuns - comment.byes - comment.legbyes

\* The team ids of batter and bowler: from the player lookup, else inferred
\* from the innings number when the match has exactly two teams.
TeamOf(d, player_id) ==
    IF player_id \in DOMAIN d.player_team THEN d.player_team[player_id] ELSE 0

bat_team_id(d, comment) ==
    LET t == TeamOf(d, comment.batsmanPlayerId)
    IN  IF t # 0 \/ Len(d.teams) # 2 THEN t
        ELSE IF comment.inningNumber = 1 THEN d.teams[1]
        ELSE IF comment.inningNumber = 2 THEN d.teams[2]
        ELSE 0

\* Mutant of bowl_team_id: the team is not inferred from the innings number.
bowl_team_id_NoInference(d, comment) == TeamOf(d, comment.bowlerPlayerId)

bowl_team_id(d, comment) ==
    LET t == TeamOf(d, comment.bowlerPlayerId)
    IN  IF t # 0 \/ Len(d.teams) # 2 THEN t
        ELSE IF comment.inningNumber = 1 THEN d.teams[2]
        ELSE IF comment.inningNumber = 2 THEN d.teams[1]
        ELSE 0

\* Mutant of IsBall: the test for an empty batter or bowler id is left out.
IsBall_NoIdCheck(d, comment) ==
    /\ comment.has_keys
    /\ bat_team_id(d, comment) # 0
    /\ bowl_team_id(d, comment) # 0

\* The two tests of the loop that skip a comment before any counter moves.
IsBall(d, comment) ==
    /\ comment.has_keys
    /\ comment.batsmanPlayerId # 0
    /\ comment.bowlerPlayerId # 0
    /\ bat_team_id(d, comment) # 0
    /\ bowl_team_id(d, comment) # 0


\* Mutant of ApplyBall: a wide or a no-ball counts as a ball faced.
ApplyBall_FacedEveryBall(st, comment) ==
    LET inn == comment.inningNumber
        bk == <<inn, comment.batsmanPlayerId>>
        wk == <<inn, comment.bowlerPlayerId>>
        i0 == Stat(st.inning_stats, inn, ZeroInning)
        b0 == Stat(st.batsman_stats, bk, ZeroBatsman)
        w0 == Stat(st.bowler_stats, wk, ZeroBowler)
        legal == IF is_legal_delivery(comment) THEN 1 ELSE 0
        wkt == IF comment.isWicket THEN 1 ELSE 0
        credit == IF comment.isWicket /\ comment.dismissalType # None
                     /\ comment.dismissalType[1] \in BOWLER_DISMISSALS
                  THEN 1 ELSE 0
    IN  [inning_stats |-> Put(st.inning_stats, inn,
                              [runs |-> i0.runs + comment.totalRuns,
                               wkts |-> i0.wkts + wkt,
                               balls |-> i0.balls + legal]),
         batsman_stats |-> Put(st.batsman_stats, bk,
                               [runs |-> b0.runs + comment.batsmanRuns,
                                bf |-> b0.bf + 1]),
         bowler_stats |-> Put(st.bowler_stats, wk,
                              [balls |-> w0.balls + legal,
                               runs |-> w0.runs + runs_conceded(comment),
                               wkts |-> w0.wkts + credit])]

\* Mutant of ApplyBall: every wicket is credited to the bowler.
ApplyBall_CreditEveryWicket(st, comment) ==
    LET inn == comment.inningNumber
        bk == <<inn, comment.batsmanPlayerId>>
        wk == <<inn, comment.bowlerPlayerId>>
        i0 == Stat(st.inning_stats, inn, ZeroInning)
        b0 == Stat(st.batsman_stats, bk, ZeroBatsman)
        w0 == Stat(st.bowler_stats, wk, ZeroBowler)
        legal == IF is_legal_delivery(comment) THEN 1 ELSE 0
        wkt == IF comment.isWicket THEN 1 ELSE 0
        credit == wkt
    IN  [inning_stats |-> Put(st.inning_stats, inn,
                              [runs |-> i0.runs + comment.totalRuns,
                               wkts |-> i0.wkts + wkt,
                               balls |-> i0.balls + legal]),
         batsman_stats |-> Put(st.batsman_stats, bk,
                               [runs |-> b0.runs + comment.batsmanRuns,
                                bf |-> b0.bf + legal]),
         bowler_stats |-> Put(st.bowler_stats, wk,
                              [balls |-> w0.balls + legal,
                               runs |-> w0.runs + runs_conceded(comment),
                               wkts |-> w0.wkts + credit])]

\* The counters after the comment is applied (the "Update Stats" block).
ApplyBall(st, comment) ==
    LET inn == comment.inningNumber
        bk == <<inn, comment.batsmanPlayerId>>
        wk == <<inn, comment.bowlerPlayerId>>
        i0 == Stat(st.inning_stats, inn, ZeroInning)
        b0 == Stat(st.batsman_stats, bk, ZeroBatsman)
        w0 == Stat(st.bowler_stats, wk, ZeroBowler)
        legal == IF is_legal_delivery(comment) THEN 1 ELSE 0
        wkt == IF comment.isWicket THEN 1 ELSE 0
        credit == IF comment.isWicket /\ comment.dismissalType # None
                     /\ comment.dismissalType[1] \in BOWLER_DISMISSALS
                  THEN 1 ELSE 0
    IN  [inning_stats |-> Put(st.inning_stats, inn,
                              [runs |-> i0.runs + comment.totalRuns,
                               wkts |-> i0.wkts + wkt,
                               balls |-> i0.balls + legal]),
         batsman_stats |-> Put(st.batsman_stats, bk,
                               [runs |-> b0.runs + comment.batsmanRuns,
                                bf |-> b0.bf + legal]),
         bowler_stats |-> Put(st.bowler_stats, wk,
                              [balls |-> w0.balls + legal,
                               runs |-> w0.runs + runs_conceded(comment),
                               wkts |-> w0.wkts + credit])]

\* Mutant of ChaseMetrics: the chase is computed for every innings.
ChaseMetrics_AnyInnings(inning_num, tgt, maxb, inns_runs, inns_balls) ==
    IF tgt # None
    THEN LET runs_rem == tgt[1] - inns_runs
             balls_rem == maxb - inns_balls
         IN  [inns_runs_rem |-> Some(runs_rem),
              inns_balls_rem |-> Some(balls_rem),
              inns_rrr |-> IF balls_rem > 0
                           THEN IF runs_rem > 0
                                THEN Some(Round2(runs_rem * 6, balls_rem))
                                ELSE Some(0)
                           ELSE IF runs_rem <= 0 THEN Some(0)
                           ELSE None]
    ELSE [inns_runs_rem |-> None, inns_balls_rem |-> None, inns_rrr |-> None]

\* Mutant of ChaseMetrics: with no balls left the rate is 0, never None.
ChaseMetrics_NoNull(inning_num, tgt, maxb, inns_runs, inns_balls) ==
    IF inning_num = 2 /\ tgt # None
    THEN LET runs_rem == tgt[1] - inns_runs
             balls_rem == maxb - inns_balls
         IN  [inns_runs_rem |-> Some(runs_rem),
              inns_balls_rem |-> Some(balls_rem),
              inns_rrr |-> IF balls_rem > 0 /\ runs_rem > 0
                           THEN Some(Round2(runs_rem * 6, balls_rem))
                           ELSE Some(0)]
    ELSE [inns_runs_rem |-> None, inns_balls_rem |-> None, inns_rrr |-> None]

\* inns_runs_rem, inns_balls_rem and inns_rrr of a record.
ChaseMetrics(inning_num, tgt, maxb, inns_runs, inns_balls) ==
    IF inning_num = 2 /\ tgt # None
    THEN LET runs_rem == tgt[1] - inns_runs
             balls_rem == maxb - inns_balls
         IN  [inns_runs_rem |-> Some(runs_rem),
              inns_balls_rem |-> Some(balls_rem),
              inns_rrr |-> IF balls_rem > 0
                           THEN IF runs_rem > 0
                                THEN Some(Round2(runs_rem * 6, balls_rem))
                                ELSE Some(0)
                           ELSE IF runs_rem <= 0 THEN Some(0)
                           ELSE None]
    ELSE [inns_runs_rem |-> None, inns_balls_rem |-> None, inns_rrr |-> None]

\* Mutant of CurrentRunRate: runs per ball, not per over of 6.
CurrentRunRate_PerBall(inns_runs, inns_balls) ==
    IF inns_balls > 0 THEN Some(Round2(inns_runs, inns_balls)) ELSE None

\* inns_rr of a record.
CurrentRunRate(inns_runs, inns_balls) ==
    IF inns_balls > 0 THEN Some(Round2(inns_runs * 6, inns_balls)) ELSE None

\* ball_data: the record appended for a comment, st being the counters after
\* it (the fields the properties read; rates are held in hundredths and
\* cur_bowl_ovr in tenths).
ball_data(d, st, comment) ==
    LET inn == comment.inningNumber
        cur_i == st.inning_stats[inn]
        cur_b == st.batsman_stats[<<inn, comment.batsmanPlayerId>>]
        cur_w == st.bowler_stats[<<inn, comment.bowlerPlayerId>>]
        chase == ChaseMetrics(inn, target(d), max_balls(d), cur_i.runs, cur_i.balls)
    IN  [inns |-> inn,
         over |-> comment.overNumber,
         ball |-> comment.ballNumber,
         p_bat |-> comment.batsmanPlayerId,
         bat |-> IF comment.batsmanPlayerId \in DOMAIN d.player_team
                 THEN Some(comment.batsmanPlayerId) ELSE None,
         p_bowl |-> comment.bowlerPlayerId,
         bowl |-> IF comment.bowlerPlayerId \in DOMAIN d.player_team
                  THEN Some(comment.bowlerPlayerId) ELSE None,
         team_bat |-> bat_team_id(d, comment),
         team_bowl |-> bowl_team_id(d, comment),
         outcome |-> determine_outcome(comment),
         score |-> comment.totalRuns,
         out |-> comment.isWicket,
         noball |-> comment.noballs,
         wide |-> comment.wides,
         byes |-> comment.byes,
         legbyes |-> comment.legbyes,
         cur_bat_runs |-> cur_b.runs,
         cur_bat_bf |-> cur_b.bf,
         cur_bowl_ovr |-> 10 * (cur_w.balls \div 6) + (cur_w.balls % 6),
         cur_bowl_wkts |-> cur_w.wkts,
         cur_bowl_runs |-> cur_w.runs,
         inns_runs |-> cur_i.runs,
         inns_wkts |-> cur_i.wkts,
         inns_balls |-> cur_i.balls,
         inns_runs_rem |-> chase.inns_runs_rem,
         inns_balls_rem |-> chase.inns_balls_rem,
         inns_rr |-> CurrentRunRate(cur_i.runs, cur_i.balls),
         inns_rrr |-> chase.inns_rrr,
         target |-> target(d),
         max_balls |-> max_balls(d),
         batruns |-> comment.batsmanRuns,
         ballfaced |-> IF is_legal_delivery(comment) THEN 1 ELSE 0,
         bowlruns |-> runs_conceded(comment)]

\* The local state of a call of create_bbb_json at its entry.  applied is
\* history: the comments that reached the counters, in order.
CallStart(d) ==
    [pc |-> "start",
     comments |-> d.comments,
     i |-> 1,
     inning_stats |-> <<>>,
     batsman_stats |-> <<>>,
     bowler_stats |-> <<>>,
     bbb_output |-> <<>>,
     applied |-> <<>>]

Counters(x) ==
    [inning_stats |-> x.inning_stats,
     batsman_stats |-> x.batsman_stats,
     bowler_stats |-> x.bowler_stats]

\* create_bbb_json up to its loop: the comments are sorted in place.
SortComments(r) ==
    /\ xf[r].pc = "start"
    /\ \E s \in comments_sort(xf[r].comments) :
          xf' = [xf EXCEPT ![r].comments = s, ![r].pc = "loop"]
    /\ UNCHANGED <<doc, crawlVars, otherVars>>

\* One iteration of "for comment in comments".
ProcessComment(r) ==
    /\ xf[r].pc = "loop"
    /\ xf[r].i <= Len(xf[r].comments)
    /\ LET x == xf[r]
           comment == x.comments[x.i]
           st == ApplyBall(Counters(x), comment)
       IN  IF ~IsBall(doc, comment)
           THEN xf' = [xf EXCEPT ![r].i = x.i + 1]
           ELSE IF format_ball_id(comment.oversActual) = None
           THEN xf' = [xf EXCEPT ![r].i = x.i + 1,
                                 ![r].inning_stats = st.inning_stats,
                                 ![r].batsman_stats = st.batsman_stats,
                                 ![r].bowler_stats = st.bowler_stats,
                                 ![r].applied = Append(x.applied, comment)]
           ELSE IF Len(doc.teams) < 2
           THEN xf' = [xf EXCEPT ![r].pc = "raised",
                                 ![r].inning_stats = st.inning_stats,
                                 ![r].batsman_stats = st.batsman_stats,
                                 ![r].bowler_stats = st.bowler_stats,
                                 ![r].applied = Append(x.applied, comment)]
           ELSE xf' = [xf EXCEPT ![r].i = x.i + 1,
                                 ![r].inning_stats = st.inning_stats,
                                 ![r].batsman_stats = st.batsman_stats,
                                 ![r].bowler_stats = st.bowler_stats,
                                 ![r].applied = Append(x.applied, comment),
                                 ![r].bbb_output =
                                     Append(x.bbb_output, ball_data(doc, st, comment))]
    /\ UNCHANGED <<doc, crawlVars, otherVars>>

\* "return bbb_output".
ReturnOutput(r) ==
    /\ xf[r].pc = "loop"
    /\ xf[r].i > Len(xf[r].comments)
    /\ xf' = [xf EXCEPT ![r].pc = "done"]
    /\ UNCHANGED <<doc, crawlVars, otherVars>>

CrawlIdle ==
    /\ store = {}
    /\ run = 1
    /\ pc = "idle"
    /\ fixture_ids = {}
    /\ urls = <<>>
    /\ batch_i = 0
    /\ task = <<>>
    /\ fetch_log = {}
    /\ saved_in = <<>>
    /\ current_proxy_index = 0


(***************************************************************************)
(* The input documents the transform is checked on.  Run counts are        *)
(* naturals and a ball's totalRuns covers its components (batsmanRuns,     *)
(* wides, noballs, byes, legbyes), any excess being 5 penalty runs.        *)
(***************************************************************************)

\* Bounds of the transform model: the longest comment list per specification.
MaxSortLen == 3
MaxReplayLen == 3
MaxChaseLen == 6
MaxRateLen == 8
MaxTargetLen == 4
MaxLookupLen == 3   \* comments of a document with unresolved players

TEAMS == <<10, 20>>

\* Players 1 and 3 are of team 10, player 2 of team 20.
PLAYER_TEAM == [p \in {1, 2, 3} |-> IF p = 2 THEN 20 ELSE 10]

\* A dot ball: ball `ball` of over `over` of innings `inn`, batter and bowler
\* taken from the two teams as the innings number has it.
Dot(inn, over, ball) ==
    [has_keys |-> TRUE,
     inningNumber |-> inn, overNumber |-> over, ballNumber |-> ball,
     batsmanPlayerId |-> IF inn = 2 THEN 2 ELSE 1,
     bowlerPlayerId |-> IF inn = 2 THEN 1 ELSE 2,
     oversActual |-> Some(10 * (over - 1) + ball),
     totalRuns |-> 0, batsmanRuns |-> 0, legbyes |-> 0, byes |-> 0,
     wides |-> 0, noballs |-> 0,
     isWicket |-> FALSE, dismissalType |-> None,
     isFour |-> FALSE, isSix |-> FALSE]

Single(c) == [c EXCEPT !.totalRuns = 1, !.batsmanRuns = 1]

Doc(comments, runs0, scheduledOvers) ==
    [comments |-> comments, runs0 |-> runs0, scheduledOvers |-> scheduledOvers,
     teams |-> TEAMS, player_team |-> PLAYER_TEAM]

ListsOver(S, n) == UNION {[1..k -> S] : k \in 0..n}

\* Comments that differ in their sort key, some sharing one, with and
\* without a run, and a comment that lacks a key.
SortKeys == {<<1, 1, 1>>, <<1, 1, 2>>, <<1, 2, 1>>, <<2, 1, 1>>}

SortComments_In ==
    {Dot(k[1], k[2], k[3]) : k \in SortKeys}
        \cup {Single(Dot(k[1], k[2], k[3])) : k \in SortKeys}
        \cup {[Dot(1, 1, 2) EXCEPT !.has_keys = FALSE]}

SortDocs == {Doc(cs, Some(1), 0) : cs \in ListsOver(SortComments_In, MaxSortLen)}

\* The deliveries of the replay: every kind of ball of the first innings,
\* wickets of several dismissal kinds (1 caught, 2 bowled, 4 run out, 11 hit
\* wicket, and none given), balls of the second innings, of a second batter
\* and of a bowler the lookup does not know, and the comments the loop skips
\* (an empty batter id, a missing key) or drops (no oversActual).
Wicket(c, kind) == [c EXCEPT !.isWicket = TRUE, !.dismissalType = kind]

Wide(c) == [c EXCEPT !.totalRuns = 1, !.wides = 1]

ReplayComments_In ==
    {Dot(1, 1, 1),
     Single(Dot(1, 1, 1)),
     [Dot(1, 1, 1) EXCEPT !.totalRuns = 1, !.legbyes = 1],
     [Dot(1, 1, 1) EXCEPT !.totalRuns = 1, !.byes = 1],
     Wide(Dot(1, 1, 1)),
     [Dot(1, 1, 1) EXCEPT !.totalRuns = 2, !.noballs = 1, !.batsmanRuns = 1],
     [Dot(1, 1, 1) EXCEPT !.totalRuns = 5],
     Wicket(Dot(1, 1, 1), Some(2)),
     Wicket(Dot(1, 1, 1), Some(4)),
     Wicket(Dot(1, 1, 1), Some(11)),
     Wicket(Dot(1, 1, 1), None),
     Single(Dot(2, 1, 1)),
     Wide(Dot(2, 1, 1)),
     Wicket(Dot(2, 1, 1), Some(1)),
     [Single(Dot(1, 1, 2)) EXCEPT !.batsmanPlayerId = 3],
     [Single(Dot(1, 1, 2)) EXCEPT !.bowlerPlayerId = 4],
     [Single(Dot(1, 1, 2)) EXCEPT !.batsmanPlayerId = 0],
     [Single(Dot(1, 1, 2)) EXCEPT !.bowlerPlayerId = 0],
     [Single(Dot(1, 1, 2)) EXCEPT !.has_keys = FALSE],
     [Single(Dot(1, 1, 2)) EXCEPT !.oversActual = None]}

ReplayDocs == {Doc(cs, Some(1), 0) : cs \in ListsOver(ReplayComments_In, MaxReplayLen)}

\* Deliveries of a match of four innings: with batter and bowler of the
\* lookup, and with a bowler (4) or a batter (5) the lookup does not hold,
\* in innings 1 and 2, where the team is inferred from the innings number,
\* and in innings 3 and 4, where it is not.
LookupComments_In ==
    {Single(Dot(1, 1, 1)),
     [Single(Dot(1, 1, 2)) EXCEPT !.bowlerPlayerId = 4],
     [Single(Dot(2, 1, 1)) EXCEPT !.batsmanPlayerId = 5],
     Single(Dot(3, 1, 1)),
     [Single(Dot(3, 1, 2)) EXCEPT !.bowlerPlayerId = 4],
     [Single(Dot(4, 1, 1)) EXCEPT !.batsmanPlayerId = 5]}

LookupDocs == {Doc(cs, Some(1), 0) : cs \in ListsOver(LookupComments_In, MaxLookupLen)}

\* A chase: second-innings balls of a one-over match (cap 6) or of a match
\* without scheduledOvers (cap 120), against targets of 1, 2 and 4 or none.
ChaseComments_In == {Dot(2, 1, 1), Single(Dot(2, 1, 1)), Wide(Dot(2, 1, 1))}

ChaseDocs ==
    {Doc(cs, runs0, so) : cs \in ListsOver(ChaseComments_In, MaxChaseLen),
                          runs0 \in {None, Some(0), Some(1), Some(3)},
                          so \in {0, 1}}

\* One delivery with every combination of the fields determine_outcome reads.
OutcomeComments_In ==
    {[Dot(1, 1, 1) EXCEPT !.isWicket = w, !.wides = wd, !.noballs = nb,
                          !.batsmanRuns = b, !.isFour = f, !.isSix = x,
                          !.legbyes = lb, !.byes = by,
                          !.totalRuns = b + wd + nb + lb + by + pen] :
        w \in BOOLEAN, wd \in {0, 1}, nb \in {0, 1}, b \in {0, 1, 4, 6},
        f \in BOOLEAN, x \in BOOLEAN, lb \in {0, 1}, by \in {0, 1},
        pen \in {0, 5}}

OutcomeDocs == {Doc(<<c>>, None, 0) : c \in OutcomeComments_In}

\* Two innings of singles and wides, long enough (a wide and 7 legal balls)
\* for a run rate that does not come out even.
RateComments_In ==
    {Single(Dot(1, 1, 1)), Wide(Dot(1, 1, 1)), Single(Dot(2, 1, 1))}

RateDocs == {Doc(cs, Some(1), 0) : cs \in ListsOver(RateComments_In, MaxRateLen)}

XfInit(Docs, Calls) ==
    /\ doc \in Docs
    /\ xf = [r \in Calls |-> CallStart(doc)]

InitSort == CrawlIdle /\ OtherIdle /\ XfInit(SortDocs, {1, 2})

InitReplay == CrawlIdle /\ OtherIdle /\ XfInit(ReplayDocs, {1})

InitChase == CrawlIdle /\ OtherIdle /\ XfInit(ChaseDocs, {1})

InitOutcome == CrawlIdle /\ OtherIdle /\ XfInit(OutcomeDocs, {1})

\* Balls of innings 1, 2 and 3, with the first innings total known (0 or 2)
\* or not, in a one-over match or one without scheduledOvers.
TargetComments_In ==
    {Single(Dot(1, 1, 1)), Single(Dot(2, 1, 1)), Wide(Dot(2, 1, 1)), Single(Dot(3, 1, 1))}

TargetDocs ==
    {Doc(cs, runs0, so) : cs \in ListsOver(TargetComments_In, MaxTargetLen),
                          runs0 \in {None, Some(0), Some(2)},
                          so \in {0, 1}}

InitTarget == CrawlIdle /\ OtherIdle /\ XfInit(TargetDocs, {1})

InitRate == CrawlIdle /\ OtherIdle /\ XfInit(RateDocs, {1})

InitLookup == CrawlIdle /\ OtherIdle /\ XfInit(LookupDocs, {1})

XfNext ==
    \/ \E r \in DOMAIN xf : SortComments(r)
    \/ \E r \in DOMAIN xf : ProcessComment(r)
    \/ \E r \in DOMAIN xf : ReturnOutput(r)

(***************************************************************************)
(*                 PROVIDER-A TRANSFORM OF ONE MATCH                       *)
(* process_match of src/transform/aucb.py from all_balls = [] to the       *)
(* write_file of the output: the loop over the innings of the match.       *)
(***************************************************************************)

\* Bounds of the provider-A transform model.
MaxOvers == 2        \* overs in one innings document
MaxOverBalls == 2    \* balls in one over
MaxMatchBalls == 3   \* balls in the innings documents of one match

\* The numbers an over and a ball can carry.
OverNumbers == {1, 2}
BallNumbers == {1, 2}

\* An innings document is inning.overs: each over has its overNumber and its
\* balls (at least one), in the order of the document.  A ball is taken to
\* carry, of the keys of the output record, its ballNumber only.
InningDocs(max_overs) ==
    UNION {[1..n -> [overNumber : OverNumbers,
                     balls : UNION {[1..m -> [ballNumber : BallNumbers]] :
                                       m \in 1..MaxOverBalls}]] :
              n \in 0..max_overs}

\* The innings process_match goes through.
innings(gameType) == IF gameType = "Test" THEN <<1, 2, 3, 4>> ELSE <<1, 2>>

\* The ball_data of the balls of one over; over_at and ball_at are history,
\* the place of the ball in the document.
OverBalls(inning_num, overs, at) ==
    [b \in 1..Len(overs[at].balls) |->
        [inningNumber |-> inning_num,
         overNumber |-> overs[at].overNumber,
         ballNumber |-> overs[at].balls[b].ballNumber,
         over_at |-> at,
         ball_at |-> b]]

\* The ball_data of the first n overs of an innings document.
RECURSIVE FirstOvers(_, _, _)
FirstOvers(inning_num, overs, n) ==
    IF n = 0 THEN <<>>
    ELSE FirstOvers(inning_num, overs, n - 1) \o OverBalls(inning_num, overs, n)

\* Mutant of inning_balls: the balls of the innings are sorted.
inning_balls_Sorted(inning_num, overs) ==
    StableSort(FirstOvers(inning_num, overs, Len(overs)))

\* What the two loops over the overs and the balls of one innings document
\* append to all_balls.
inning_balls(inning_num, overs) == FirstOvers(inning_num, overs, Len(overs))

\* The number of balls of an innings document.
RECURSIVE BallCount(_, _)
BallCount(overs, n) ==
    IF n = 0 THEN 0 ELSE BallCount(overs, n - 1) + Len(overs[n].balls)

\* The required files were found and the scorecard is loaded: all_balls is
\* empty and the first innings is next.  docs is history: the document read
\* for each innings, None for a file that does not exist.
FlattenInit ==
    \E gameType \in {"Test", "T20"} :
       flatten = [gameType |-> gameType,
                  pc |-> "innings",
                  i |-> 1,
                  docs |-> <<>>,
                  all_balls |-> <<>>,
                  output |-> None]

\* One turn of the loop over innings, for an innings whose file exists.
FlattenInning ==
    /\ flatten # None
    /\ flatten.pc = "innings"
    /\ flatten.i <= Len(innings(flatten.gameType))
    /\ \E overs \in InningDocs(Min2(MaxOvers, MaxMatchBalls - Len(flatten.all_balls))) :
          /\ Len(flatten.all_balls) + BallCount(overs, Len(overs)) <= MaxMatchBalls
          /\ flatten' = [flatten EXCEPT
                           !.i = @ + 1,
                           !.docs = Append(@, Some(overs)),
                           !.all_balls = @ \o inning_balls(innings(flatten.gameType)[flatten.i], overs)]
    /\ UNCHANGED <<crawlVars, xfVars, disc, val, job, op, fx, fetched, crawl_main>>

\* One turn of the loop over innings, for an innings whose file does not
\* exist: inning1 and inning2 are required files, so it is a later one.
FlattenSkipInning ==
    /\ flatten # None
    /\ flatten.pc = "innings"
    /\ flatten.i <= Len(innings(flatten.gameType))
    /\ innings(flatten.gameType)[flatten.i] \notin {1, 2}
    /\ flatten' = [flatten EXCEPT !.i = @ + 1, !.docs = Append(@, None)]
    /\ UNCHANGED <<crawlVars, xfVars, disc, val, job, op, fx, fetched, crawl_main>>

\* write_file(output_path, all_balls).
FlattenWrite ==
    /\ flatten # None
    /\ flatten.pc = "innings"
    /\ flatten.i > Len(innings(flatten.gameType))
    /\ flatten' = [flatten EXCEPT !.pc = "written", !.output = Some(flatten.all_balls)]
    /\ UNCHANGED <<crawlVars, xfVars, disc, val, job, op, fx, fetched, crawl_main>>

FlattenNext ==
    \/ FlattenInning
    \/ FlattenSkipInning
    \/ FlattenWrite

InitFlatten == CrawlIdle /\ XfIdle /\ DiscIdle /\ ValIdle /\ JobIdle /\ OpIdle /\ FxIdle /\ FetchedIdle /\ FlattenInit /\ MainIdle

\* The provider-A transform of one match.
SpecFlatten == InitFlatten /\ [][FlattenNext]_vars

(***************************************************************************)
(*                        THE CRAWL ENTRY POINT                            *)
(* main() of src/scrape/aucb_bbb_scrape.py: scrape_fixtures, then          *)
(* CricketScraper().scrape(), inside one try; True, or False on exception. *)
(***************************************************************************)

\* main() is called over a blob store holding the fixture files of some
\* ids.  raised is None or the stage an exception escaped from.
MainInit ==
    \E ids \in SUBSET FixtureIds :
       crawl_main = [pc |-> "scrape_fixtures",
                     store |-> {Path(f, "fixture") : f \in ids},
                     all_fixtures |-> <<>>,
                     fixture_ids |-> {},
                     urls |-> <<>>,
                     requests |-> 0,
                     raised |-> None,
                     result |-> None]

\* scrape_fixtures returns: the fixtures fetched (none when every yearly
\* fetch failed or listed nothing) are filtered, and the fixture file of a
\* retained fixture with an id is written unless write_file raised.
MainScrapeFixtures ==
    /\ crawl_main # None
    /\ crawl_main.pc = "scrape_fixtures"
    /\ \E all_fixtures \in UNION {[1..n -> ListedFixtures] : n \in 0..MaxListed} :
          LET filtered == SelectSeq(all_fixtures, PassesFilter)
              with_id == {filtered[k].id : k \in DOMAIN filtered} \ {0}
          IN  \E written \in SUBSET with_id :
                 crawl_main' = [crawl_main EXCEPT
                                  !.pc = "scrape",
                                  !.all_fixtures = all_fixtures,
                                  !.store = @ \cup {Path(f, "fixture") : f \in written}]
    /\ UNCHANGED <<crawlVars, xfVars, disc, val, job, op, fx, fetched, flatten>>

\* An exception escapes scrape_fixtures (the session cannot be opened, a
\* listed fixture has a null startDateTime).
MainScrapeFixturesRaises ==
    /\ crawl_main # None
    /\ crawl_main.pc = "scrape_fixtures"
    /\ crawl_main' = [crawl_main EXCEPT !.pc = "except", !.raised = Some("scrape_fixtures")]
    /\ UNCHANGED <<crawlVars, xfVars, disc, val, job, op, fx, fetched, flatten>>

\* Mutant of MainScrape: an empty frontier is an error.
MainScrape_RaisesOnEmptyFrontier ==
    /\ crawl_main # None
    /\ crawl_main.pc = "scrape"
    /\ LET ids == load_fixture_ids_from_directory(crawl_main.store)
           us == generate_urls(crawl_main.store, ids)
       IN  IF ids = {}
           THEN crawl_main' = [crawl_main EXCEPT !.pc = "except", !.raised = Some("scrape")]
           ELSE \E saved \in SUBSET {us[k] : k \in DOMAIN us} :
                   crawl_main' = [crawl_main EXCEPT
                                    !.pc = "scraped",
                                    !.fixture_ids = ids,
                                    !.urls = us,
                                    !.requests = Len(us),
                                    !.store = @ \cup saved]
    /\ UNCHANGED <<crawlVars, xfVars, disc, val, job, op, fx, fetched, flatten>>

\* scrape() returns: with an empty frontier at once, else after every url
\* generated has been requested, batch by batch, and some results saved.
MainScrape ==
    /\ crawl_main # None
    /\ crawl_main.pc = "scrape"
    /\ LET ids == load_fixture_ids_from_directory(crawl_main.store)
           us == generate_urls(crawl_main.store, ids)
       IN  IF ids = {}
           THEN crawl_main' = [crawl_main EXCEPT !.pc = "scraped"]
           ELSE \E saved \in SUBSET {us[k] : k \in DOMAIN us} :
                   crawl_main' = [crawl_main EXCEPT
                                    !.pc = "scraped",
                                    !.fixture_ids = ids,
                                    !.urls = us,
                                    !.requests = Len(us),
                                    !.store = @ \cup saved]
    /\ UNCHANGED <<crawlVars, xfVars, disc, val, job, op, fx, fetched, flatten>>

\* An exception escapes scrape(), past its early return (generate_urls'
\* file_exists, ensure_dir, the session).
MainScrapeRaises ==
    /\ crawl_main # None
    /\ crawl_main.pc = "scrape"
    /\ load_fixture_ids_from_directory(crawl_main.store) # {}
    /\ crawl_main' = [crawl_main EXCEPT
                        !.pc = "except",
                        !.fixture_ids = load_fixture_ids_from_directory(crawl_main.store),
                        !.raised = Some("scrape")]
    /\ UNCHANGED <<crawlVars, xfVars, disc, val, job, op, fx, fetched, flatten>>

\* "return True".
MainReturnTrue ==
    /\ crawl_main # None
    /\ crawl_main.pc = "scraped"
    /\ crawl_main' = [crawl_main EXCEPT !.pc = "returned", !.result = Some(TRUE)]
    /\ UNCHANGED <<crawlVars, xfVars, disc, val, job, op, fx, fetched, flatten>>

\* "except Exception: return False".
MainReturnFalse ==
    /\ crawl_main # None
    /\ crawl_main.pc = "except"
    /\ crawl_main' = [crawl_main EXCEPT !.pc = "returned", !.result = Some(FALSE)]
    /\ UNCHANGED <<crawlVars, xfVars, disc, val, job, op, fx, fetched, flatten>>

MainNext ==
    \/ MainScrapeFixtures
    \/ MainScrapeFixturesRaises
    \/ MainScrape
    \/ MainScrapeRaises
    \/ MainReturnTrue
    \/ MainReturnFalse

InitMain == CrawlIdle /\ XfIdle /\ DiscIdle /\ ValIdle /\ JobIdle /\ OpIdle /\ FxIdle /\ FetchedIdle /\ FlattenIdle /\ MainInit

\* One call of the crawl entry point.
SpecMain == InitMain /\ [][MainNext]_vars

InitJob == CrawlIdle /\ XfIdle /\ DiscIdle /\ ValIdle /\ JobInit /\ OpIdle /\ FxIdle /\ FetchedIdle /\ FlattenIdle /\ MainIdle

\* One transform job.
SpecJob == InitJob /\ [][JobNext]_vars

InitUnit == CrawlIdle /\ XfIdle /\ DiscIdle /\ ValIdle /\ UnitInit /\ OpIdle /\ FxIdle /\ FetchedIdle /\ FlattenIdle /\ MainIdle

InitFx == CrawlIdle /\ XfIdle /\ DiscIdle /\ ValIdle /\ JobIdle /\ OpIdle /\ FxInit /\ FetchedIdle /\ FlattenIdle /\ MainIdle

\* The fixture files over the crawl runs.
SpecFx == InitFx /\ [][FxNext]_vars

InitFetched == CrawlIdle /\ XfIdle /\ DiscIdle /\ ValIdle /\ JobIdle /\ OpIdle /\ FxIdle /\ FetchedInit /\ FlattenIdle /\ MainIdle

\* One call of fetch_url.
SpecFetched == InitFetched /\ [][FetchOne]_vars

InitOp == CrawlIdle /\ XfIdle /\ DiscIdle /\ ValIdle /\ JobIdle /\ OpInit /\ FxIdle /\ FetchedIdle /\ FlattenIdle /\ MainIdle

\* One call of a crawl operation.
SpecOp == InitOp /\ [][OpNext]_vars

\* One transform job over units in every state of the store.
SpecUnit == InitUnit /\ [][JobNext]_vars

InitVal == CrawlIdle /\ XfIdle /\ DiscIdle /\ ValInit /\ JobIdle /\ OpIdle /\ FxIdle /\ FetchedIdle /\ FlattenIdle /\ MainIdle

\* One call of is_valid_match on a scorecard.
SpecVal == InitVal /\ [][Validate]_vars

InitDisc == CrawlIdle /\ XfIdle /\ DiscInit /\ ValIdle /\ JobIdle /\ OpIdle /\ FxIdle /\ FetchedIdle /\ FlattenIdle /\ MainIdle

\* The discovery tasks of scrape_fixtures.
SpecDisc == InitDisc /\ [][DiscNext]_vars

\* Two calls of create_bbb_json on the same document, side by side.
SpecSort == InitSort /\ [][XfNext]_vars

\* One call on a document of mixed deliveries.
SpecReplay == InitReplay /\ [][XfNext]_vars

\* One call on a second innings.
SpecChase == InitChase /\ [][XfNext]_vars

\* One call on a single delivery.
SpecOutcome == InitOutcome /\ [][XfNext]_vars

\* One call on a match of up to three innings, its target known or not.
SpecTarget == InitTarget /\ [][XfNext]_vars

\* One call on two innings of up to MaxRateLen balls.
SpecRate == InitRate /\ [][XfNext]_vars

\* One call on a match with players the lookup does not hold.
SpecLookup == InitLookup /\ [][XfNext]_vars


(***************************************************************************)
(*                    CLAIMS ABOUT THE TRANSFORM ENGINE                    *)
(***************************************************************************)

Output(r) == xf[r].bbb_output

RecordKey(rec) == <<rec.inns, rec.over, rec.ball>>

KeyBefore(a, b) ==
    \/ a[1] < b[1]
    \/ a[1] = b[1] /\ a[2] < b[2]
    \/ a[1] = b[1] /\ a[2] = b[2] /\ a[3] < b[3]

\* The comments of the raw document that get a record: those the loop
\* neither skips nor drops.
Emitted ==
    SelectSeq(doc.comments,
              LAMBDA c : IsBall(doc, c) /\ format_ball_id(c.oversActual) # None)

\* C2 as stated: the records a call returns are strictly increasing in
\* (innings number, over number, ball number); no two share a key.
C2_StrictlyIncreasing ==
    \A r \in DOMAIN xf :
       xf[r].pc = "done" =>
          \A k \in 1..(Len(Output(r)) - 1) :
             KeyBefore(RecordKey(Output(r)[k]), RecordKey(Output(r)[k + 1]))

\* C2 as amended: the records are in non-decreasing key order whatever the
\* order of the raw comments, one record per comment that is neither skipped
\* nor dropped; two records share a key exactly when two such comments do.
C2_SortedNotDeduplicated ==
    \A r \in DOMAIN xf :
       /\ \A k \in 1..(Len(Output(r)) - 1) :
             ~KeyBefore(RecordKey(Output(r)[k + 1]), RecordKey(Output(r)[k]))
       /\ xf[r].pc = "done" =>
             /\ Len(Output(r)) = Len(Emitted)
             /\ (\E j, k \in DOMAIN Output(r) :
                    j # k /\ RecordKey(Output(r)[j]) = RecordKey(Output(r)[k]))
                <=> (\E j, k \in DOMAIN Emitted :
                        j # k /\ SortKey(Emitted[j]) = SortKey(Emitted[k]))

\* C2 witness: a call has returned three records for a document whose
\* comments came out of order and of which two share a key.
C2_Witness ==
    /\ xf[1].pc = "done"
    /\ Len(Output(1)) = 3
    /\ KeyBefore(SortKey(doc.comments[3]), SortKey(doc.comments[1]))
    /\ RecordKey(Output(1)[1]) = RecordKey(Output(1)[2])
    /\ KeyBefore(RecordKey(Output(1)[2]), RecordKey(Output(1)[3]))

\* C3: along the records of a call every counter is non-decreasing within
\* its scope: inns_runs, inns_wkts, inns_balls per innings; cur_bat_runs,
\* cur_bat_bf per (innings, batter); cur_bowl_runs, cur_bowl_wkts and the
\* bowler's balls (cur_bowl_ovr) per (innings, bowler).
C3_CountersMonotonic ==
    \A r \in DOMAIN xf :
       \A j, k \in DOMAIN Output(r) :
          LET a == Output(r)[j]
              b == Output(r)[k]
          IN  (j < k /\ a.inns = b.inns) =>
                 /\ a.inns_runs <= b.inns_runs
                 /\ a.inns_wkts <= b.inns_wkts
                 /\ a.inns_balls <= b.inns_balls
                 /\ a.p_bat = b.p_bat =>
                       /\ a.cur_bat_runs <= b.cur_bat_runs
                       /\ a.cur_bat_bf <= b.cur_bat_bf
                 /\ a.p_bowl = b.p_bowl =>
                       /\ a.cur_bowl_runs <= b.cur_bowl_runs
                       /\ a.cur_bowl_wkts <= b.cur_bowl_wkts
                       /\ a.cur_bowl_ovr <= b.cur_bowl_ovr

\* C3 witness: three records of one innings, batter and bowler, over which
\* runs, wickets and balls have all grown, byes among them.
C3_Witness ==
    /\ Len(Output(1)) = 3
    /\ \A k \in 1..3 : /\ Output(1)[k].inns = 1
                       /\ Output(1)[k].p_bat = 1
                       /\ Output(1)[k].p_bowl = 2
    /\ Output(1)[2].byes = 1
    /\ Output(1)[1].inns_runs < Output(1)[3].inns_runs
    /\ Output(1)[1].inns_wkts < Output(1)[3].inns_wkts
    /\ Output(1)[1].cur_bowl_ovr < Output(1)[3].cur_bowl_ovr

TheBall == doc.comments[1]

\* C5: the outcome label follows the precedence wicket, wide, no-ball (with
\* its four sub-labels by the runs off the bat), four, six.
C5_OutcomePrecedence ==
    \A k \in DOMAIN Output(1) :
       LET c == TheBall
           o == Output(1)[k].outcome
       IN  /\ c.isWicket => o = "wicket"
           /\ (~c.isWicket /\ c.wides > 0) => o = "wide"
           /\ (~c.isWicket /\ c.wides = 0 /\ c.noballs > 0) =>
                 /\ c.batsmanRuns = 4 => o = "noball+four"
                 /\ c.batsmanRuns = 6 => o = "noball+six"
                 /\ (c.batsmanRuns > 0 /\ c.batsmanRuns \notin {4, 6}) => o = "noball+run"
                 /\ c.batsmanRuns = 0 => o = "noball"
           /\ (~c.isWicket /\ c.wides = 0 /\ c.noballs = 0) =>
                 /\ c.isFour => o = "four"
                 /\ (~c.isFour /\ c.isSix) => o = "six"

\* C5 witness: a wicket that is also a wide and a four has its record.
C5_Witness ==
    /\ Len(Output(1)) = 1
    /\ TheBall.isWicket
    /\ TheBall.wides = 1
    /\ TheBall.isFour

\* C6: a delivery that is no wicket, wide, no-ball, four or six is a "run"
\* if its total runs are positive and a "no run" otherwise.
C6_RunIffTotalPositive ==
    \A k \in DOMAIN Output(1) :
       LET c == TheBall
           o == Output(1)[k].outcome
       IN  (~c.isWicket /\ c.wides = 0 /\ c.noballs = 0 /\ ~c.isFour /\ ~c.isSix) =>
              o = (IF c.totalRuns > 0 THEN "run" ELSE "no run")

\* The step of call r that applies a comment to the counters.
Applies(r) == Len(xf'[r].applied) = Len(xf[r].applied) + 1

\* C7: every applied comment with the wicket flag adds exactly 1 to the
\* innings wickets; it adds 1 to the bowler's wickets when the dismissal kind
\* is 1, 2, 3, 5 or 11 and leaves them as they were for every other kind.
C7_WicketCredit ==
    [][\A r \in DOMAIN xf :
          Applies(r) =>
             LET c == Last(xf'[r].applied)
                 inn == c.inningNumber
                 bowler == <<inn, c.bowlerPlayerId>>
                 credited == c.dismissalType \in {<<1>>, <<2>>, <<3>>, <<5>>, <<11>>}
             IN  c.isWicket =>
                    /\ Stat(xf'[r].inning_stats, inn, ZeroInning).wkts
                          = Stat(xf[r].inning_stats, inn, ZeroInning).wkts + 1
                    /\ Stat(xf'[r].bowler_stats, bowler, ZeroBowler).wkts
                          = Stat(xf[r].bowler_stats, bowler, ZeroBowler).wkts
                               + (IF credited THEN 1 ELSE 0)]_vars

\* C7 witness: a bowled batter and then a run-out, both off the same bowler:
\* the innings has two wickets and the bowler one.
C7_Witness ==
    /\ Len(Output(1)) = 2
    /\ Len(xf[1].applied) = 2
    /\ xf[1].applied[1].dismissalType = Some(2)
    /\ xf[1].applied[2].dismissalType = Some(4)
    /\ Output(1)[2].out
    /\ Output(1)[2].inns_wkts = 2
    /\ Output(1)[2].cur_bowl_wkts = 1

\* C8: an applied comment adds 1 to the innings balls, the bowler's balls
\* and the batter's balls faced exactly when wides = 0 and noballs = 0, and
\* nothing to them otherwise; it always adds batsmanRuns to the batter's
\* runs and totalRuns - byes - legbyes to the bowler's runs.
C8_LegalDeliveryAccounting ==
    [][\A r \in DOMAIN xf :
          Applies(r) =>
             LET c == Last(xf'[r].applied)
                 inn == c.inningNumber
                 batter == <<inn, c.batsmanPlayerId>>
                 bowler == <<inn, c.bowlerPlayerId>>
                 one == IF c.wides = 0 /\ c.noballs = 0 THEN 1 ELSE 0
             IN  /\ Stat(xf'[r].inning_stats, inn, ZeroInning).balls
                       = Stat(xf[r].inning_stats, inn, ZeroInning).balls + one
                 /\ Stat(xf'[r].bowler_stats, bowler, ZeroBowler).balls
                       = Stat(xf[r].bowler_stats, bowler, ZeroBowler).balls + one
                 /\ Stat(xf'[r].batsman_stats, batter, ZeroBatsman).bf
                       = Stat(xf[r].batsman_stats, batter, ZeroBatsman).bf + one
                 /\ Stat(xf'[r].batsman_stats, batter, ZeroBatsman).runs
                       = Stat(xf[r].batsman_stats, batter, ZeroBatsman).runs + c.batsmanRuns
                 /\ Stat(xf'[r].bowler_stats, bowler, ZeroBowler).runs
                       = Stat(xf[r].bowler_stats, bowler, ZeroBowler).runs
                            + (c.totalRuns - c.byes - c.legbyes)]_vars

\* C8 witness: after a legal ball, a no-ball with a run off the bat has been
\* recorded: the batter has the run and the bowler two, and no ball counts.
C8_Witness ==
    /\ Len(Output(1)) = 2
    /\ Output(1)[1].inns_balls = 1
    /\ Output(1)[2].noball = 1
    /\ Output(1)[2].inns_balls = 1
    /\ Output(1)[2].cur_bat_bf = 1
    /\ Output(1)[2].cur_bat_runs = Output(1)[1].cur_bat_runs + 1
    /\ Output(1)[2].cur_bowl_runs = Output(1)[1].cur_bowl_runs + 2

\* h hundredths is q rounded to 2 decimals, q = num / den: no hundredth is
\* nearer to q.
NearestHundredth(h, num, den) ==
    /\ 2 * (100 * num - h * den) <= den
    /\ 2 * (h * den - 100 * num) <= den

\* C9: on every second-innings record with a target, remaining runs =
\* target - innings runs, remaining balls = ball cap (6 * scheduledOvers, or
\* 120) - innings legal balls, and when both are positive the required rate
\* is remaining runs * 6 / remaining balls rounded to 2 decimals; target 150,
\* runs 100, balls 90, cap 120 give 50, 30 and 10.0.
C9_ChaseArithmetic ==
    /\ \A k \in DOMAIN Output(1) :
          LET rec == Output(1)[k]
              cap == IF doc.scheduledOvers # 0 THEN 6 * doc.scheduledOvers ELSE 120
          IN  (rec.inns = 2 /\ doc.runs0 # None) =>
                 /\ rec.target = Some(doc.runs0[1] + 1)
                 /\ rec.inns_runs_rem = Some(rec.target[1] - rec.inns_runs)
                 /\ rec.inns_balls_rem = Some(cap - rec.inns_balls)
                 /\ (rec.inns_runs_rem[1] > 0 /\ rec.inns_balls_rem[1] > 0) =>
                       /\ rec.inns_rrr # None
                       /\ NearestHundredth(rec.inns_rrr[1], 6 * rec.inns_runs_rem[1],
                                           rec.inns_balls_rem[1])
    /\ ChaseMetrics(2, Some(150), 120, 100, 90)
          = [inns_runs_rem |-> Some(50), inns_balls_rem |-> Some(30), inns_rrr |-> Some(1000)]

\* C9 witness: a chase record whose required rate is rounded up (3 runs off
\* 116 balls: 0.1551... gives 0.16).
C9_Witness ==
    \E k \in DOMAIN Output(1) :
       LET rec == Output(1)[k]
       IN  /\ rec.inns = 2
           /\ rec.inns_runs_rem = Some(3)
           /\ rec.inns_balls_rem = Some(116)
           /\ rec.inns_rrr = Some(16)

\* C10: on a second-innings record with a target, the required rate is 0
\* once the target is met (remaining runs <= 0), whatever the remaining
\* balls, and absent when no balls remain and runs are outstanding.
C10_RequiredRateEdges ==
    \A k \in DOMAIN Output(1) :
       LET rec == Output(1)[k]
       IN  (rec.inns = 2 /\ rec.target # None) =>
              /\ rec.inns_runs_rem[1] <= 0 => rec.inns_rrr = Some(0)
              /\ (rec.inns_balls_rem[1] <= 0 /\ rec.inns_runs_rem[1] > 0) =>
                    rec.inns_rrr = None

\* C10 witness: the over is bowled out with runs outstanding (the rate is
\* absent), after a record on which balls remained and the rate was a number.
C10_Witness ==
    \E j, k \in DOMAIN Output(1) :
       /\ j < k
       /\ Output(1)[j].inns_rrr # None
       /\ Output(1)[j].inns_rrr # Some(0)
       /\ Output(1)[k].inns_balls_rem = Some(0)
       /\ Output(1)[k].inns_runs_rem[1] > 0
       /\ Output(1)[k].inns_rrr = None

\* C11: on every record the current run rate is innings runs * 6 / innings
\* legal balls rounded to 2 decimals when the innings has a legal ball, and
\* absent while it has none; runs 30, balls 24 give 7.5.
C11_CurrentRunRate ==
    /\ \A k \in DOMAIN Output(1) :
          LET rec == Output(1)[k]
          IN  /\ rec.inns_balls = 0 => rec.inns_rr = None
              /\ rec.inns_balls > 0 =>
                    /\ rec.inns_rr # None
                    /\ NearestHundredth(rec.inns_rr[1], 6 * rec.inns_runs, rec.inns_balls)
    /\ CurrentRunRate(30, 24) = Some(750)

\* C11 witness: an innings opens with a wide (a record without a rate) and
\* reaches 8 runs off 7 legal balls, a rate of 6.8571... recorded as 6.86.
C11_Witness ==
    \E j, k \in DOMAIN Output(1) :
       /\ Output(1)[j].inns = 1
       /\ Output(1)[j].inns_balls = 0
       /\ Output(1)[j].inns_rr = None
       /\ Output(1)[k].inns = 1
       /\ Output(1)[k].inns_runs = 8
       /\ Output(1)[k].inns_balls = 7
       /\ Output(1)[k].inns_rr = Some(686)

\* C12: the target is the first innings total + 1 when that total is known
\* (absent otherwise), the same on every record; remaining runs, remaining
\* balls and required rate are all absent on the records of an innings other
\* than the second and on every record when the target is unknown, and the
\* remaining runs and balls are present on a second-innings record with a
\* target.
C12_ChaseSecondInningsOnly ==
    \A k \in DOMAIN Output(1) :
       LET rec == Output(1)[k]
       IN  /\ doc.runs0 # None => rec.target = Some(doc.runs0[1] + 1)
           /\ doc.runs0 = None => rec.target = None
           /\ (rec.inns # 2 \/ doc.runs0 = None) =>
                 /\ rec.inns_runs_rem = None
                 /\ rec.inns_balls_rem = None
                 /\ rec.inns_rrr = None
           /\ (rec.inns = 2 /\ doc.runs0 # None) =>
                 /\ rec.inns_runs_rem # None
                 /\ rec.inns_balls_rem # None

\* C12 witness: a match with a target of 3 has records of innings 1, 2 and
\* 3; only the one of innings 2 carries the chase.
C12_Witness ==
    /\ doc.runs0 = Some(2)
    /\ Len(Output(1)) = 3
    /\ Output(1)[1].inns = 1 /\ Output(1)[1].inns_runs_rem = None
    /\ Output(1)[2].inns = 2 /\ Output(1)[2].inns_runs_rem = Some(2)
    /\ Output(1)[3].inns = 3 /\ Output(1)[3].inns_runs_rem = None
    /\ \A k \in 1..3 : Output(1)[k].target = Some(3)

\* The comment call r is about to process lacks a required key or has an
\* empty batter or bowler id.
AtInvalidEvent(r) ==
    /\ xf[r].pc = "loop"
    /\ xf[r].i <= Len(xf[r].comments)
    /\ LET c == xf[r].comments[xf[r].i]
       IN  ~c.has_keys \/ c.batsmanPlayerId = 0 \/ c.bowlerPlayerId = 0

\* C13: the step that processes an event lacking a required key or having an
\* empty batter or bowler id appends no record, leaves the innings, batter
\* and bowler tables as they were, and moves on to the next event.
C13_InvalidEventSkipped ==
    [][\A r \in DOMAIN xf :
          (AtInvalidEvent(r) /\ xf'[r] # xf[r]) =>
             /\ xf'[r].bbb_output = xf[r].bbb_output
             /\ xf'[r].inning_stats = xf[r].inning_stats
             /\ xf'[r].batsman_stats = xf[r].batsman_stats
             /\ xf'[r].bowler_stats = xf[r].bowler_stats
             /\ xf'[r].applied = xf[r].applied
             /\ xf'[r].i = xf[r].i + 1
             /\ xf'[r].pc = "loop"]_vars

\* C13 witness: between two balls that got their records, an event with an
\* empty bowler id was passed over.
C13_Witness ==
    /\ xf[1].pc = "loop"
    /\ xf[1].i = 4
    /\ xf[1].comments[2].has_keys
    /\ xf[1].comments[2].bowlerPlayerId = 0
    /\ Len(Output(1)) = 2
    /\ Len(xf[1].applied) = 2
    /\ Output(1)[2].inns_runs = Output(1)[1].inns_runs + xf[1].comments[3].totalRuns

\* Runs, wickets and legal balls of innings inn summed over the comments cs.
RECURSIVE InningsTotals(_, _)
InningsTotals(cs, inn) ==
    IF cs = <<>> THEN [runs |-> 0, wkts |-> 0, balls |-> 0]
    ELSE LET t == InningsTotals(Front(cs), inn)
             c == Last(cs)
         IN  IF c.inningNumber # inn THEN t
             ELSE [runs |-> t.runs + c.totalRuns,
                   wkts |-> t.wkts + (IF c.isWicket THEN 1 ELSE 0),
                   balls |-> t.balls + (IF c.wides = 0 /\ c.noballs = 0 THEN 1 ELSE 0)]

\* C14: the step that processes one event appends at most one record, and
\* the record it appends carries the counters as they are after the event:
\* its innings runs, wickets and legal balls are the sums over the events of
\* that innings applied so far, this one included.
C14_SnapshotAfterEvent ==
    [][\A r \in DOMAIN xf :
          /\ Len(xf'[r].bbb_output) <= Len(xf[r].bbb_output) + 1
          /\ Len(xf'[r].bbb_output) <= xf'[r].i - 1
          /\ Len(xf'[r].bbb_output) = Len(xf[r].bbb_output) + 1 =>
                LET rec == Last(xf'[r].bbb_output)
                    event == xf[r].comments[xf[r].i]
                    sums == InningsTotals(xf'[r].applied, event.inningNumber)
                IN  /\ xf'[r].i = xf[r].i + 1
                    /\ SubSeq(xf'[r].bbb_output, 1, Len(xf[r].bbb_output)) = xf[r].bbb_output
                    /\ Last(xf'[r].applied) = event
                    /\ rec.inns = event.inningNumber
                    /\ rec.inns_runs = sums.runs
                    /\ rec.inns_wkts = sums.wkts
                    /\ rec.inns_balls = sums.balls]_vars

\* C14 witness: a wicket, a single that is applied but gets no record (it has
\* no oversActual) and a single: the second record counts all three.
C14_Witness ==
    /\ Len(xf[1].applied) = 3
    /\ Len(Output(1)) = 2
    /\ xf[1].applied[2].oversActual = None
    /\ Output(1)[1].inns_wkts = 1
    /\ Output(1)[2].inns = 1
    /\ Output(1)[2].inns_runs = 2
    /\ Output(1)[2].inns_wkts = 1
    /\ Output(1)[2].inns_balls = 3

\* C15: at every point of a crawl run the fetches in flight, each holding a
\* permit of the semaphore, number at most the concurrency limit, however
\* many requests the batch has.
C15_BoundedFetchConcurrency ==
    Cardinality(InFlight) <= ConcurrencyLimit

\* C15 witness: every permit is taken and a request of the batch waits.
C15_Witness ==
    /\ pc = "fetching"
    /\ Len(task) > ConcurrencyLimit
    /\ Cardinality(InFlight) = ConcurrencyLimit
    /\ \E k \in DOMAIN task : task[k] = "waiting"

\* C16: at most FIXTURES_CONCURRENCY_LIMIT discovery tasks hold a slot at
\* once, and a task gives up its slot only when the delay that follows its
\* request has fully elapsed: the delay is spent holding the slot.
C16_DiscoveryThrottled ==
    /\ [](Cardinality(SlotHolders) <= FixturesConcurrencyLimit)
    /\ [][\A y \in DOMAIN disc :
             (y \in SlotHolders /\ y \notin SlotHolders') =>
                /\ disc[y].pc = "sleeping"
                /\ disc[y].slept = FIXTURES_DELAY_SECONDS
                /\ disc'[y].pc = "done"]_vars

\* C16 witness: one task has slept its delay out and released its slot, the
\* task that waited for it has the slot, every slot being taken again, one
\* of them by a task still in its delay.
C16_Witness ==
    /\ Cardinality({y \in DOMAIN disc : disc[y].pc = "done"}) = 1
    /\ Cardinality(SlotHolders) = FixturesConcurrencyLimit
    /\ \E y \in SlotHolders :
          disc[y].pc = "sleeping" /\ disc[y].slept < FIXTURES_DELAY_SECONDS

\* C17: whatever fetches and saves fail, a run ends only when every request
\* it generated has been fetched and every result that was kept has been
\* through save_data; and every run that starts does end.
C17_FailureIsolation ==
    /\ [][(pc # "idle" /\ pc' = "idle") =>
             /\ \A k \in DOMAIN urls :
                   \E e \in fetch_log :
                      /\ e.run = run
                      /\ e.fixture_id = urls[k].fixture_id
                      /\ e.type = urls[k].type
             /\ \A k \in DOMAIN task : task[k] \in {"dropped", "rejected", "saved", "unsaved"}
             /\ run' = run + 1]_vars
    /\ [](pc # "idle" => <>(pc = "idle"))

\* C17 witness: the last batch of a run is through: one fetch failed, one
\* save failed, and a third request was fetched and saved all the same.
C17_Witness ==
    /\ pc = "saving"
    /\ batch_i + BatchSize >= Len(urls)
    /\ \E i, j, k \in DOMAIN task :
          /\ task[i] = "dropped"
          /\ task[j] = "unsaved"
          /\ task[k] = "saved"
          /\ i < k /\ j < k

\* C18: is_valid_match answers false for a scorecard marked as a women's
\* competition, for one that starts before 2019, for one whose game type is
\* not 1, 2, 3, 6 or 24, for one whose result type is "No Result" or
\* "Abandoned", and whenever its evaluation raises (a fixture that is no
\* object, a start date that does not parse); it answers true only when none
\* of these is the case.
C18_MatchValidator ==
    (val # None /\ val.result # None) =>
       LET d == val.data
           answer == val.result[1]
           womens == d.isWomensCompetition = Some(TRUE)
           early == d.startDateTime # None /\ d.startDateTime[1].parses
                       /\ d.startDateTime[1].year < 2019
           other_type == d.gameTypeId \notin {Some(1), Some(2), Some(3), Some(6), Some(24)}
           no_result == d.resultType \in {Some("No Result"), Some("Abandoned")}
           raises == \/ d.fixture = "null"
                     \/ d.startDateTime # None /\ ~d.startDateTime[1].parses
       IN  /\ womens => ~answer
           /\ early => ~answer
           /\ other_type => ~answer
           /\ no_result => ~answer
           /\ raises => ~answer
           /\ answer => ~(womens \/ early \/ other_type \/ no_result \/ raises)

\* C18 witness: a men's match of the cutoff year itself, of game type 24, that
\* was won, has been accepted.
C18_Witness ==
    /\ val # None
    /\ val.result = Some(TRUE)
    /\ val.data.startDateTime = Some([parses |-> TRUE, year |-> 2019])
    /\ val.data.gameTypeId = Some(24)

\* C19: the cursor stays within 0 .. P - 1; the call of get_next_proxy that
\* k calls of the same crawler instance came before returns pool[k mod P];
\* and the cursor moves only in the step in which one task, taking its
\* permit, reads and advances it by one modulo P (a new instance starting
\* again at 0).
C19_ProxyRoundRobin ==
    /\ [](current_proxy_index \in 0..(Len(PROXY_LIST) - 1))
    /\ [](\A e \in fetch_log :
             /\ e.proxy = PROXY_LIST[(e.call % Len(PROXY_LIST)) + 1]
             /\ \A f \in fetch_log : (f.run = e.run /\ f.call = e.call) => f = e)
    /\ [][current_proxy_index' # current_proxy_index =>
             \/ pc = "idle" /\ current_proxy_index' = 0
             \/ /\ pc = "fetching"
                /\ current_proxy_index' = (current_proxy_index + 1) % Len(PROXY_LIST)
                /\ \E k \in DOMAIN task :
                      /\ task[k] = "waiting"
                      /\ k \in InFlight'
                      /\ \A j \in DOMAIN task \ {k} : task'[j] = task[j]
                /\ Cardinality(InFlight') <= ConcurrencyLimit]_vars

\* C19 witness: the third request of a run has gone out while another was
\* in flight; the rotation had wrapped round and gave it the first proxy.
C19_Witness ==
    /\ pc = "fetching"
    /\ Cardinality(InFlight) = ConcurrencyLimit
    /\ current_proxy_index = 3 % Len(PROXY_LIST)
    /\ \E e \in fetch_log :
          /\ e.run = run
          /\ e.call = Len(PROXY_LIST)
          /\ e.proxy = PROXY_LIST[1]
    /\ Cardinality({e \in fetch_log : e.run = run}) = 3

\* C20: once every unit has reported and main has returned, the job's
\* result is success exactly when some unit succeeded or was skipped, and
\* failure exactly when every unit failed, in whatever order the workers
\* finished.
C20_JobResult ==
    (job # None /\ job.pc = "returned") =>
       /\ Len(job.consumed) = Len(job.outcome)
       /\ job.result = Some(\E u \in DOMAIN job.outcome :
                                job.outcome[u] \in {"ok", "skipped"})
       /\ job.result = Some(FALSE) <=>
             \A u \in DOMAIN job.outcome : job.outcome[u] = "failed"

\* C20 witness: a match job of three units has returned success; two units
\* failed, the one that reported first was skipped, and it was not the first
\* of the list.
C20_Witness ==
    /\ job # None
    /\ job.pc = "returned"
    /\ job.kind = "aucb"
    /\ Len(job.consumed) = 3
    /\ job.consumed[1] # 1
    /\ job.outcome[job.consumed[1]] = "skipped"
    /\ job.failed = 2
    /\ job.result = Some(TRUE)

(***************************************************************************)
(*                    CLAIMS ABOUT THE TRANSFORM WORKERS                   *)
(***************************************************************************)

\* The units whose function has returned.
FinishedUnits ==
    IF job = None THEN {} ELSE {u \in DOMAIN job.state : job.state[u] = "finished"}

\* C21 (as stated): a worker writes a unit's output only when the output
\* path did not exist, and whenever it existed the worker returns success
\* marked as skipped and leaves the output as it was.
C21_ExistingOutputSkipped ==
    \A u \in FinishedUnits :
       /\ job.units[u].output = "new" => ~job.existed[u]
       /\ job.existed[u] => /\ job.outcome[u] = "skipped"
                            /\ job.units[u].output = "old"

\* C21 (amended): a worker writes a unit's output only when the output path
\* did not exist, and an output that existed is never rewritten; the worker
\* then returns success with a "Skipped" message, except that process_match
\* reads the fixture before it looks at the output path, so that a match
\* whose fixture cannot be read is reported failed although its output
\* exists.
C21_ExistingOutputNeverRewritten ==
    \A u \in FinishedUnits :
       LET unreadable == job.kind = "aucb" /\ job.units[u].raw.fixture = "unreadable"
       IN  /\ job.units[u].output = "new" =>
                 /\ ~job.existed[u]
                 /\ job.outcome[u] = "ok"
                 /\ job.message[u] = None
           /\ job.existed[u] =>
                 /\ job.units[u].output = "old"
                 /\ IF unreadable
                    THEN /\ job.outcome[u] = "failed"
                         /\ job.message[u] = Some("Error reading fixture data")
                    ELSE /\ job.outcome[u] = "skipped"
                         /\ job.message[u] \in SkippedMessages

\* C21 witness: in one job a unit whose output existed was skipped as
\* already processed and left alone, and another unit's output was written.
C21_Witness ==
    \E u, v \in FinishedUnits :
       /\ job.existed[u]
       /\ job.message[u] = Some("Skipped - file already processed")
       /\ job.units[u].output = "old"
       /\ ~job.existed[v]
       /\ job.units[v].output = "new"

\* A match that lacks one of inning1, inning2, scorecard, or whose fixture
\* cannot be read.
LacksRequired(u) ==
    /\ job.kind = "aucb"
    /\ \/ job.units[u].raw.fixture = "unreadable"
       \/ job.units[u].raw.present # {"inning1", "inning2", "scorecard"}

\* C22 (as stated): a match that lacks any required raw document is
\* reported as a failed unit with a message and writes no output, and the
\* job goes on to the other units.
C22_MissingPrerequisiteFails ==
    /\ \A u \in FinishedUnits :
          LacksRequired(u) =>
             /\ job.outcome[u] = "failed"
             /\ job.message[u] # None
             /\ job.units[u].output # "new"
    /\ (job # None /\ job.pc = "returned") => Len(job.consumed) = Len(job.units)

\* C22 (amended): a match that lacks a required raw document never gets an
\* output written, and the job goes on to every other unit.  It is reported
\* failed, with the message "Missing required file" naming the first missing
\* one of fixture, inning1, inning2, scorecard, only if its fixture can be
\* read, does not say "No Result" or "Abandoned", and its output does not
\* exist yet: an unreadable fixture is reported failed as "Error reading
\* fixture data", and a no-result or abandoned match, or one whose output
\* exists, is reported as success with a "Skipped" message.
C22_MissingPrerequisiteFailsUnlessSkipped ==
    /\ \A u \in FinishedUnits :
          LacksRequired(u) =>
             LET raw == job.units[u].raw
                 first == IF "inning1" \notin raw.present THEN "inning1"
                          ELSE IF "inning2" \notin raw.present THEN "inning2"
                          ELSE "scorecard"
             IN  /\ job.units[u].output # "new"
                 /\ job.units[u].output = "old" <=> job.existed[u]
                 /\ raw.fixture = "unreadable" =>
                       /\ job.outcome[u] = "failed"
                       /\ job.message[u] = Some("Error reading fixture data")
                 /\ raw.fixture = "no_result" =>
                       /\ job.outcome[u] = "skipped"
                       /\ job.message[u] = Some("Skipped - no result or abandoned")
                 /\ (raw.fixture = "ok" /\ job.existed[u]) =>
                       /\ job.outcome[u] = "skipped"
                       /\ job.message[u] = Some("Skipped - file already processed")
                 /\ (raw.fixture = "ok" /\ ~job.existed[u]) =>
                       /\ job.outcome[u] = "failed"
                       /\ job.message[u] = Some("Missing required file")
                       /\ job.file[u] = first
    /\ (job # None /\ job.pc = "returned") =>
          /\ Len(job.consumed) = Len(job.units)
          /\ FinishedUnits = DOMAIN job.units
          /\ job.failed = Cardinality({u \in DOMAIN job.units : job.outcome[u] = "failed"})

\* C22 witness: a job has returned whose first match lacked inning2 and was
\* reported failed for it, with no output, and whose second match was
\* transformed and written all the same.
C22_Witness ==
    /\ job # None
    /\ job.pc = "returned"
    /\ job.kind = "aucb"
    /\ Len(job.units) = 2
    /\ job.units[1].raw.present = {"inning1", "scorecard"}
    /\ job.message[1] = Some("Missing required file")
    /\ job.file[1] = "inning2"
    /\ job.units[1].output = "absent"
    /\ job.outcome[2] = "ok"
    /\ job.units[2].output = "new"
    /\ job.failed = 1
    /\ job.succeeded = 1

(***************************************************************************)
(*                    CLAIMS ABOUT THE CRAWL OPERATIONS                    *)
(***************************************************************************)

\* The trigger was sent and did not come back with status 200.
TriggerFailed ==
    /\ op # None
    /\ op.pc = "returned"
    /\ op.posts = 1
    /\ op.post.exc # "" \/ op.post.status_code # 200

\* C23: when the crawl succeeded and the transform trigger fails (a non-200
\* response, a timeout or a connection failure of the post), the crawl
\* operation returns status partial_success, not error.
C23_TriggerFailureDegrades ==
    (TriggerFailed /\ op.scraping_success = Some(TRUE)) =>
       op.result = Some("partial_success")

\* C24: the trigger is sent at most once, and only after the crawl stage
\* returned success; when the crawl stage fails or raises nothing is sent
\* and the result is error; when no transform url is configured a
\* successful crawl returns success without a trigger.
C24_TriggerOrdering ==
    op # None =>
       /\ op.posts <= 1
       /\ op.posts = 1 => /\ op.scraping_success = Some(TRUE)
                          /\ op.transform_url
                          /\ op.pc \in {"posting", "returned"}
       /\ op.pc = "returned" =>
             /\ op.crawl \in {"false", "raises"} =>
                   op.posts = 0 /\ op.result = Some("error")
             /\ (op.crawl = "true" /\ ~op.transform_url) =>
                   op.posts = 0 /\ op.result = Some("success")
             /\ (op.crawl = "true" /\ op.transform_url) => op.posts = 1

\* C24 witness: a crawl that returned success was followed by one post to
\* the configured url, and the operation has returned.
C24_Witness ==
    /\ op # None
    /\ op.pc = "returned"
    /\ op.crawl = "true"
    /\ op.transform_url
    /\ op.posts = 1
    /\ op.result = Some("success")

(***************************************************************************)
(*                     CLAIMS ABOUT FIXTURE PERSISTENCE                    *)
(***************************************************************************)

\* The crawl runs whose save tasks have all run.
SavedRuns ==
    IF fx = None THEN {}
    ELSE {r \in 1..Len(fx.listings) :
             r < fx.run \/ (fx.pc = "saving" /\ fx.k > Len(fx.filtered))}

\* Run r's listing has a fixture of this id that passes the filter.
Retained(r, id) ==
    \E k \in DOMAIN fx.listings[r] :
       /\ fx.listings[r][k].id = id
       /\ fx.listings[r][k].gameTypeId \in {1, 2, 3, 6, 24}
       /\ fx.listings[r][k].startDate >= 20250502

\* C25 (as stated): once a fixture has been persisted under its id, no
\* later crawl run writes that fixture path again.
C25_FixtureWrittenOnce ==
    fx # None => \A id \in FixtureIds : Cardinality(fx.writes[id]) <= 1

\* C25 (amended): every crawl run writes the fixture path of every fixture
\* its listing retains (allowed game type, start date after the watermark,
\* an id), whether or not the path exists, unless the write raises; it
\* writes no other fixture path, and the file holds what the last run that
\* wrote it put there.
C25_FixtureRewrittenWhenRetained ==
    fx # None =>
       \A id \in FixtureIds :
          /\ fx.files[id] = IF fx.writes[id] = {} THEN 0 ELSE Max(fx.writes[id])
          /\ \A r \in fx.writes[id] : Retained(r, id)
          /\ \A r \in SavedRuns :
                (Retained(r, id) /\ <<r, id>> \notin fx.failed) => r \in fx.writes[id]

\* C25 witness: the second run has written again, with its own content, the
\* path of a fixture the first run had persisted.
C25_Witness ==
    /\ fx # None
    /\ fx.run = 3
    /\ \E id \in FixtureIds :
          /\ fx.writes[id] = {1, 2}
          /\ fx.files[id] = 2

(***************************************************************************)
(*                     CLAIMS ABOUT THE PLAYER LOOKUP                      *)
(***************************************************************************)

\* The comment's batter or bowler is not in the player lookup.
Unresolved(c) ==
    \/ c.batsmanPlayerId \notin DOMAIN doc.player_team
    \/ c.bowlerPlayerId \notin DOMAIN doc.player_team

\* What identifies the comment a record was made from.
RecordOf(c) ==
    <<c.inningNumber, c.overNumber, c.ballNumber, c.batsmanPlayerId, c.bowlerPlayerId>>

RecordId(rec) == <<rec.inns, rec.over, rec.ball, rec.p_bat, rec.p_bowl>>

\* C26 (as stated): an event whose batter or bowler id cannot be resolved in
\* the player lookup still produces an output record, with null name fields
\* for that player.
C26_UnresolvedPlayerKept ==
    xf # None /\ xf[1].pc = "done" =>
       \A k \in DOMAIN doc.comments :
          Unresolved(doc.comments[k]) =>
             \E j \in DOMAIN Output(1) :
                /\ RecordId(Output(1)[j]) = RecordOf(doc.comments[k])
                /\ Output(1)[j].bat = None \/ Output(1)[j].bowl = None

\* C26 (amended): in a match of two teams an event whose batter or bowler
\* id cannot be resolved in the player lookup produces an output record,
\* with null name fields for that player and the team inferred from the
\* innings number, if it is of innings 1 or 2; in any later innings the
\* event is skipped without a record.  The other events are transformed
\* all the same, and the call returns.
C26_UnresolvedPlayerKeptWhenTeamInferred ==
    xf # None /\ xf[1].pc = "done" =>
       LET kept == SelectSeq(xf[1].comments,
                             LAMBDA c : ~Unresolved(c) \/ c.inningNumber \in {1, 2})
       IN  /\ Len(Output(1)) = Len(kept)
           /\ \A j \in DOMAIN kept :
                 LET rec == Output(1)[j]
                     c == kept[j]
                 IN  /\ RecordId(rec) = RecordOf(c)
                     /\ rec.bat = None <=> c.batsmanPlayerId \notin DOMAIN doc.player_team
                     /\ rec.bowl = None <=> c.bowlerPlayerId \notin DOMAIN doc.player_team
                     /\ Unresolved(c) =>
                           /\ rec.team_bat = IF c.inningNumber = 1 THEN 10 ELSE 20
                           /\ rec.team_bowl = IF c.inningNumber = 1 THEN 20 ELSE 10

\* C26 witness: a call has returned on a match of three deliveries, the
\* first bowled by a player the lookup does not hold in innings 1, the
\* second with such a bowler in innings 3, the third with known players;
\* the first has its record with a null bowler name, the second has none,
\* the third has its record.
C26_Witness ==
    /\ xf # None
    /\ xf[1].pc = "done"
    /\ Len(xf[1].comments) = 3
    /\ xf[1].comments[1].bowlerPlayerId = 4 /\ xf[1].comments[1].inningNumber = 1
    /\ xf[1].comments[2].bowlerPlayerId = 2 /\ xf[1].comments[2].inningNumber = 3
    /\ xf[1].comments[3].bowlerPlayerId = 4 /\ xf[1].comments[3].inningNumber = 3
    /\ Len(Output(1)) = 2
    /\ Output(1)[1].p_bowl = 4 /\ Output(1)[1].bowl = None
    /\ Output(1)[2].inns = 3 /\ Output(1)[2].bowl = Some(2)

(***************************************************************************)
(*                     CLAIMS ABOUT WORK GENERATION                        *)
(***************************************************************************)

\* The urls are those generate_urls returned on the store as it is: the
\* first batch of a run is being fetched, nothing of the run is saved yet.
JustGenerated == pc = "fetching" /\ batch_i = 0

\* The documents of the frontier ids above f that the store lacks.
MissingAbove(f) ==
    {p \in {Path(g, UrlTypes[k]) : g \in fixture_ids, k \in DOMAIN UrlTypes} :
        p.fixture_id > f /\ p \notin store}

\* The frontier ids generate_urls visits: those reached with no more than
\* the cap of urls generated for the ids above them.
Visited == {f \in fixture_ids : Cardinality(MissingAbove(f)) <= UrlCap}

KindIndex(type) == CHOOSE k \in DOMAIN UrlTypes : UrlTypes[k] = type

\* C27: generate_urls visits the frontier ids in descending order and, for
\* each id it visits, emits the scorecard and the innings 1..4 requests, in
\* that order, exactly for the kinds whose output path does not exist; it
\* never emits a request for an output that exists.
C27_WorkGeneration ==
    JustGenerated =>
       /\ \A k \in DOMAIN urls : ~file_exists(store, urls[k])
       /\ \A j, k \in DOMAIN urls :
             j < k =>
                \/ urls[j].fixture_id > urls[k].fixture_id
                \/ /\ urls[j].fixture_id = urls[k].fixture_id
                   /\ KindIndex(urls[j].type) < KindIndex(urls[k].type)
       /\ \A k \in DOMAIN urls : urls[k].fixture_id \in Visited
       /\ \A f \in Visited, t \in DOMAIN UrlTypes :
             Path(f, UrlTypes[t]) \in Range(urls) <=> Path(f, UrlTypes[t]) \notin store

\* C27 witness: a second run has generated requests for both fixtures, the
\* higher id first, leaving out a document of it that the first run saved.
C27_Witness ==
    /\ JustGenerated
    /\ run = 2
    /\ Len(urls) >= 3
    /\ urls[1].fixture_id = 2
    /\ urls[Len(urls)].fixture_id = 1
    /\ Path(2, "inning1") \in store
    /\ Path(2, "inning1") \notin Range(urls)

\* C28 (as stated): a run never holds more pending items than the cap.
C28_NeverAboveCap == Len(urls) <= UrlCap

\* C28 (amended): the cap is tested after each fixture's requests have been
\* appended and is met only by a count above it, so generation stops after
\* the first fixture that takes the count above the cap: no request is
\* generated for a fixture below one at which the count was above the cap,
\* and a run holds at most the cap plus the five requests of one fixture.
C28_StopsAboveCap ==
    JustGenerated =>
       /\ Len(urls) <= UrlCap + Len(UrlTypes)
       /\ \A k \in DOMAIN urls :
             Cardinality({j \in DOMAIN urls :
                             urls[j].fixture_id > urls[k].fixture_id}) <= UrlCap
       /\ Len(urls) <= UrlCap =>
             \A f \in fixture_ids, t \in DOMAIN UrlTypes :
                Path(f, UrlTypes[t]) \notin store => Path(f, UrlTypes[t]) \in Range(urls)

\* C28 witness: the higher fixture gave exactly as many requests as the cap,
\* so the lower one was visited as well, and the run holds more than the cap.
C28_Witness ==
    /\ JustGenerated
    /\ Cardinality({k \in DOMAIN urls : urls[k].fixture_id = 2}) = UrlCap
    /\ \E k \in DOMAIN urls : urls[k].fixture_id = 1
    /\ Len(urls) > UrlCap

\* C29: over repeated crawl runs with a fixed frontier, every (match id,
\* kind) of the frontier whose output is missing is eventually requested in
\* some run, the lowest frontier ids included.
C29_EveryMissingEventuallyRequested ==
    \A f \in FixtureIds, t \in DOMAIN UrlTypes :
       (Path(f, "fixture") \in store /\ Path(f, UrlTypes[t]) \notin store)
          ~> (Path(f, UrlTypes[t]) \in Range(urls))

(***************************************************************************)
(*                  CLAIMS ABOUT RESPONSE CLASSIFICATION                   *)
(***************************************************************************)

\* C30: fetch_url drops a response whose status is not 200, a body that
\* fails JSON decoding, and a decoded payload with at most one top-level key
\* (zero or one); every other payload is kept and returned with its match
\* id and kind.
C30_ResponseClassification ==
    (fetched # None /\ fetched.pc = "returned") =>
       LET resp == fetched.resp
           dropped == \/ resp.exc
                      \/ resp.status # 200
                      \/ ~resp.json
                      \/ resp.nkeys <= 1
       IN  IF dropped THEN fetched.result = None
           ELSE fetched.result = Some([fixture_id |-> fetched.fixture_id,
                                       type |-> fetched.type,
                                       data |-> resp.nkeys])

(***************************************************************************)
(*                  CLAIMS ABOUT THE PERSISTENCE OF PAYLOADS               *)
(***************************************************************************)

\* C31: a kept scorecard payload is written if and only if is_valid_match
\* accepts it, and a kept payload of any other kind is written without
\* validation, whatever became of the scorecard of its match; a payload
\* that is to be written is missing from the store only if write_file
\* raised.
C31_ValidationGate ==
    /\ [](\A k \in DOMAIN task :
             /\ task[k] = "rejected" => Batch[k].type = "scorecard"
             /\ task[k] = "saved" =>
                   /\ file_exists(store, Batch[k])
                   /\ saved_in[Batch[k]] = run)
    /\ [][\A k \in DOMAIN task :
             (pc = "saving" /\ task[k] \in {"kept", "kept_valid"} /\ task'[k] # task[k]) =>
                LET u == Batch[k]
                    accepted == task[k] = "kept_valid"
                IN  /\ (u.type = "scorecard" /\ ~accepted) =>
                          /\ task'[k] = "rejected"
                          /\ store' = store
                    /\ (u.type # "scorecard" \/ accepted) =>
                          \/ /\ task'[k] = "saved"
                             /\ store' = store \cup {u}
                          \/ /\ task'[k] = "unsaved"
                             /\ store' = store]_vars

\* C31 witness: in one batch the scorecard of a match was rejected by the
\* validator and not written, and an innings document of the same match,
\* saved after it, was written.
C31_Witness ==
    /\ pc = "saving"
    /\ \E j, k \in DOMAIN task :
          /\ j < k
          /\ Batch[j].type = "scorecard"
          /\ task[j] = "rejected"
          /\ ~file_exists(store, Batch[j])
          /\ Batch[k].fixture_id = Batch[j].fixture_id
          /\ Batch[k].type = "inning1"
          /\ task[k] = "saved"
          /\ file_exists(store, Batch[k])

\* C32: a fixture file is written in a run only for a fixture the run listed
\* with a game type in the allowed set and a start date strictly after the
\* watermark date; the save of a retained fixture without an id writes no
\* file and the save tasks go on; and when the saves of a run are over,
\* every retained fixture with an id was written unless write_file raised.
C32_DiscoveryFilter ==
    /\ [](fx # None =>
            /\ \A f \in FixtureIds : \A r \in fx.writes[f] :
                  \E i \in DOMAIN fx.listings[r] :
                     LET l == fx.listings[r][i]
                     IN  /\ l.id = f
                         /\ l.gameTypeId \in VALID_GAME_TYPE_IDS
                         /\ l.startDate > PREV_DATE
            /\ fx.pc = "saving" =>
                  \A i \in 1..(fx.k - 1) :
                     LET f == fx.filtered[i]
                     IN  f.id # 0 => \/ fx.run \in fx.writes[f.id]
                                     \/ <<fx.run, f.id>> \in fx.failed)
    /\ [][(fx # None /\ fx.pc = "saving" /\ fx.k <= Len(fx.filtered)
              /\ fx.filtered[fx.k].id = 0) =>
             /\ fx'.pc = "saving"
             /\ fx'.k = fx.k + 1
             /\ fx'.filtered = fx.filtered
             /\ fx'.files = fx.files
             /\ fx'.writes = fx.writes
             /\ fx'.failed = fx.failed]_vars

\* C32 witness: in the first run a retained fixture without an id was
\* dropped, and the fixture retained after it was written.
C32_Witness ==
    /\ fx # None
    /\ fx.run = 1
    /\ fx.pc = "saving"
    /\ fx.k = 3
    /\ fx.filtered[1].id = 0
    /\ fx.filtered[2].id # 0
    /\ fx.files[fx.filtered[2].id] = 1
    /\ \A f \in FixtureIds : f # fx.filtered[2].id => fx.files[f] = 0

(***************************************************************************)
(*                 CLAIMS ABOUT THE PROVIDER-A TRANSFORM                   *)
(***************************************************************************)

\* The (innings number, over number, in-over sequence number) of a record.
FlatKey(b) == <<b.inningNumber, b.overNumber, b.ballNumber>>

\* The place of a record in the raw documents.
FlatPlace(b) == <<b.inningNumber, b.over_at, b.ball_at>>

C34_CountedIffEmitted ==
    [][\A r \in DOMAIN xf :
          (xf[r].pc = "loop" /\ xf'[r].pc = "loop") =>
             ((Applies(r) \/ Counters(xf'[r]) # Counters(xf[r]))
                <=> (/\ Len(xf'[r].bbb_output) = Len(xf[r].bbb_output) + 1
                     /\ Front(xf'[r].bbb_output) = xf[r].bbb_output))]_vars

\* The sum of a counter over the entries of a batter or bowler table that
\* belong to innings inn.
RECURSIVE SumOver(_, _, _)
SumOver(table, keys, field) ==
    IF keys = {} THEN 0
    ELSE LET k == CHOOSE x \in keys : TRUE
         IN  table[k][field] + SumOver(table, keys \ {k}, field)

InningsSum(table, inn, field) ==
    SumOver(table, {k \in DOMAIN table : k[1] = inn}, field)

\* C35: at every point of the replay, in every innings the legal balls of
\* the innings equal the sum of the balls of its bowlers and the sum of the
\* balls faced of its batters.
C35_BallsConserved ==
    \A r \in DOMAIN xf :
       \A inn \in DOMAIN xf[r].inning_stats :
          /\ xf[r].inning_stats[inn].balls = InningsSum(xf[r].bowler_stats, inn, "balls")
          /\ xf[r].inning_stats[inn].balls = InningsSum(xf[r].batsman_stats, inn, "bf")

\* C35 witness: two legal balls of the first innings, faced by two batters
\* and bowled by two bowlers, and a wide of the second innings.
C35_Witness ==
    /\ xf # None
    /\ Len(xf[1].applied) = 3
    /\ DOMAIN xf[1].inning_stats = {1, 2}
    /\ xf[1].inning_stats[1].balls = 2
    /\ xf[1].inning_stats[2].balls = 0
    /\ Cardinality({k \in DOMAIN xf[1].batsman_stats : k[1] = 1 /\ xf[1].batsman_stats[k].bf = 1}) = 2
    /\ Cardinality({k \in DOMAIN xf[1].bowler_stats : k[1] = 1 /\ xf[1].bowler_stats[k].balls = 1}) = 2

\* The wickets among the comments cs of innings inn whose dismissal kind is
\* not one credited to the bowler.
RECURSIVE NonBowlingWickets(_, _)
NonBowlingWickets(cs, inn) ==
    IF cs = <<>> THEN 0
    ELSE NonBowlingWickets(Front(cs), inn)
           + (IF /\ Last(cs).inningNumber = inn
                 /\ Last(cs).isWicket
                 /\ Last(cs).dismissalType \notin {<<1>>, <<2>>, <<3>>, <<5>>, <<11>>}
              THEN 1 ELSE 0)

\* C36: at every point of the replay, in every innings the wickets of the
\* innings are at least the sum of the wickets credited to its bowlers, and
\* exceed it by the number of processed wickets of the innings whose
\* dismissal kind is not 1, 2, 3, 5 or 11.
C36_WicketsConserved ==
    \A r \in DOMAIN xf :
       \A inn \in DOMAIN xf[r].inning_stats :
          LET credited == InningsSum(xf[r].bowler_stats, inn, "wkts")
          IN  /\ xf[r].inning_stats[inn].wkts >= credited
              /\ xf[r].inning_stats[inn].wkts - credited
                    = NonBowlingWickets(xf[r].applied, inn)

\* C36 witness: three wickets of the first innings, one bowled, one run out
\* and one without a dismissal kind: the innings has three wickets and its
\* bowlers one.
C36_Witness ==
    /\ xf # None
    /\ Len(xf[1].applied) = 3
    /\ DOMAIN xf[1].inning_stats = {1}
    /\ xf[1].inning_stats[1].wkts = 3
    /\ InningsSum(xf[1].bowler_stats, 1, "wkts") = 1
    /\ \E k \in 1..3 : xf[1].applied[k].dismissalType = Some(4)
    /\ \E k \in 1..3 : xf[1].applied[k].dismissalType = None

(***************************************************************************)
(*                    CLAIMS ABOUT THE CRAWL'S PERMITS                     *)
(***************************************************************************)

\* C37: a fetch holds its permit only while it is in flight and gives it
\* back however its request ends, so that every fetch in flight returns,
\* every batch being fetched gets to its saves, every run ends, and whenever
\* no batch is being fetched (the end of the run included) every permit is
\* free.
C37_NoPermitLeak ==
    /\ [](pc # "fetching" => InFlight = {})
    /\ [][\A k \in DOMAIN task :
             (k \in InFlight /\ task'[k] # task[k]) =>
                /\ task'[k] \in {"dropped", "kept", "kept_valid"}
                /\ InFlight' = InFlight \ {k}]_vars
    /\ \A k \in 1..BatchSize : (k \in InFlight) ~> (k \notin InFlight)
    /\ (pc = "fetching") ~> (pc = "saving" /\ InFlight = {})
    /\ (pc # "idle") ~> (pc = "idle" /\ InFlight = {} /\ task = <<>>)

\* C37 witness: a batch of more requests than there are permits has been
\* fetched, one fetch dropped and one kept, and no permit is held.
C37_Witness ==
    /\ pc = "saving"
    /\ Len(task) > ConcurrencyLimit
    /\ InFlight = {}
    /\ \E j, k \in DOMAIN task :
          /\ task[j] = "dropped"
          /\ task[k] \in {"kept", "kept_valid"}
    /\ Cardinality({e \in fetch_log : e.run = run}) >= Len(task)

(***************************************************************************)
(*              CLAIMS ABOUT THE ORCHESTRATOR'S COUNTERS                   *)
(***************************************************************************)

\* C38: in the provider-A transform job the processed counter is at every
\* point the number of results reported and the sum of the succeeded,
\* skipped and failed counters; each reported result adds 1 to exactly one
\* of the three; and when main returns after the pool is exhausted the
\* processed counter is the number of units submitted.
C38_CounterConservation ==
    /\ []((job # None /\ job.kind = "aucb") =>
            /\ job.processed = Len(job.consumed)
            /\ job.processed = job.succeeded + job.skipped + job.failed
            /\ (job.pc = "returned" /\ Len(job.units) > 0) =>
                  job.processed = Len(job.units))
    /\ [][(job # None /\ job.kind = "aucb" /\ job'.processed # job.processed) =>
             /\ job'.processed = job.processed + 1
             /\ \/ /\ job'.succeeded = job.succeeded + 1
                   /\ job'.skipped = job.skipped
                   /\ job'.failed = job.failed
                \/ /\ job'.succeeded = job.succeeded
                   /\ job'.skipped = job.skipped + 1
                   /\ job'.failed = job.failed
                \/ /\ job'.succeeded = job.succeeded
                   /\ job'.skipped = job.skipped
                   /\ job'.failed = job.failed + 1]_vars

\* C38 witness: a provider-A job of three units has returned, its results
\* reported out of the order of submission: one succeeded, one skipped, one
\* failed.
C38_Witness ==
    /\ job # None
    /\ job.kind = "aucb"
    /\ job.pc = "returned"
    /\ job.processed = 3
    /\ job.succeeded = 1
    /\ job.skipped = 1
    /\ job.failed = 1
    /\ job.consumed # <<1, 2, 3>>

(***************************************************************************)
(*                  CLAIMS ABOUT THE CRAWL ENTRY POINT                     *)
(***************************************************************************)

\* C39: main() returns True exactly when no exception escaped either stage
\* and False exactly when one did; in particular, when scrape_fixtures
\* returned and the frontier scrape() loads is empty, scrape() generates no
\* request, fetches nothing and raises nothing, and main() returns True.
C39_TrueUnlessExceptionEscapes ==
    (crawl_main # None /\ crawl_main.pc = "returned") =>
        /\ crawl_main.result \in {Some(TRUE), Some(FALSE)}
        /\ crawl_main.result = Some(TRUE) <=> crawl_main.raised = None
        /\ (/\ crawl_main.raised # Some("scrape_fixtures")
            /\ load_fixture_ids_from_directory(crawl_main.store) = {}) =>
              /\ crawl_main.urls = <<>>
              /\ crawl_main.requests = 0
              /\ crawl_main.result = Some(TRUE)

\* C39 witness: main() has returned True although discovery fetched no
\* fixture, the store holds no fixture file and no request was made.
C39_Witness ==
    /\ crawl_main # None
    /\ crawl_main.pc = "returned"
    /\ crawl_main.all_fixtures = <<>>
    /\ crawl_main.store = {}
    /\ crawl_main.fixture_ids = {}
    /\ crawl_main.requests = 0
    /\ crawl_main.raised = None
    /\ crawl_main.result = Some(TRUE)

====
